---- MODULE Spec2Model ----
(***************************************************************************)
(* Blood investigation analyzer: the reference catalog, the lookup of an  *)
(* input key in a panel's catalog, the analysis of one value against one   *)
(* reference entry, the analysis of a whole panel, the sample-quality      *)
(* assessment of a CBC, the liver injury pattern, the routing of the AI    *)
(* review, the manual entry form, and the session state of main().         *)
(*                                                                         *)
(* Representation.                                                         *)
(*  - A Python str is a sequence of one-character strings, so that         *)
(*    str.lower() and == are computed character by character.              *)
(*  - A Python float is an integer number of hundredths (4.0 is 400,       *)
(*    0.01 is 1); every number of the catalog has at most two decimals.    *)
(*    Quotients are exact rationals <<numerator, denominator>> in lowest   *)
(*    terms.  The rounding of binary floating point is modelled where it   *)
(*    decides an outcome: a computed value that is exactly on a limit it   *)
(*    is compared with, or on the edge of its range, may come out just     *)
(*    beyond it (abs(9.9 - 9.0) / 9.0 * 100 is 10.000000000000004), which  *)
(*    fp_rounding chooses.                                                  *)
(*  - None is the empty tuple and a present optional value x is <<x>>.     *)
(*  - A dict is a sequence of [key, val] pairs with distinct keys, in      *)
(*    insertion order.                                                     *)
(***************************************************************************)
EXTENDS Integers, Sequences, FiniteSets, TLC

VARIABLES
  pc,                \* position of the modelled call
  panel_type,        \* the selected investigation panel
  patient_gender,    \* sidebar selection of main()
  parameters,        \* input dict of display_parameters_grid
  param_name,        \* the key being looked up / analysed
  param_value,       \* the raw value being analysed
  ref_key,           \* catalog key matched by the lookup, or None
  ref_info,          \* the reference entry (wrapped), or None
  analysis,          \* result of analyze_parameter (wrapped), or None
  analysis_results,  \* result dict of display_parameters_grid
  issues,            \* issues list of get_sample_quality_assessment
  quality_notes,     \* quality_notes list of get_sample_quality_assessment
  fp_rounding,       \* how the float operations of the call round
  exc,               \* exception that escaped the call, "" if none
  alt,               \* ALT of the liver panel, in U/L
  alp,               \* ALP of the liver panel, in U/L
  liver_pattern,     \* the reported liver injury pattern, "" before the rule ran
  provider,          \* the AI provider name passed to get_ai_review
  api_key,           \* the api_key passed to get_ai_review, or None
  remote_ok,         \* whether the provider's library and request succeed
  review,            \* result of get_ai_review (wrapped), or None
  session_state,     \* st.session_state of the browser session
  run_id,            \* number of the current script run of the session
  ai_section,        \* what the AI review section of the last run showed
  form_values        \* the number inputs of manual_entry_form

vars == <<pc, panel_type, patient_gender, parameters, param_name, param_value,
          ref_key, ref_info, analysis, analysis_results, issues, quality_notes,
          fp_rounding, exc, alt, alp, liver_pattern, provider, api_key,
          remote_ok, review, session_state, run_id, ai_section, form_values>>

\* the variables of the liver rule, the AI review and the session
session_vars == <<alt, alp, liver_pattern, provider, api_key, remote_ok, review,
                  session_state, run_id, ai_section, form_values>>

\* the variables of the catalog lookup, the analysis and the quality assessment
analysis_vars == <<panel_type, patient_gender, parameters, param_name, param_value,
                   ref_key, ref_info, analysis, analysis_results, issues,
                   quality_notes, fp_rounding>>

----------------------------------------------------------------------------
(* Optional values *)

None == <<>>

Some(x) == <<x>>

\* a session in which nothing was stored
EmptySession == [all_analysis |-> None, parsed_results |-> None, patient_info |-> None]

\* no liver rule, review or session is involved in the call
SessionIdle ==
  /\ alt = 0 /\ alp = 0 /\ liver_pattern = ""
  /\ provider = <<>> /\ api_key = None /\ remote_ok = TRUE /\ review = None
  /\ session_state = EmptySession /\ run_id = 0 /\ ai_section = ""
  /\ form_values = <<>>

----------------------------------------------------------------------------
(* Bounds of the model *)

\* reference bounds of the synthetic entries range over -MaxBound..MaxBound
MaxBound == 2

\* largest number of entries of an input dict
MaxParams == 2

----------------------------------------------------------------------------
(* Exact rational arithmetic for the float expressions of the analysis *)

RECURSIVE GCD(_, _)
GCD(a, b) == IF b = 0 THEN a ELSE GCD(b, a % b)

Abs(n) == IF n < 0 THEN -n ELSE n

\* the rational n/d (d # 0) in lowest terms with a positive denominator
Rat(n, d) ==
  LET g == GCD(Abs(n), Abs(d))
      s == IF d < 0 THEN -1 ELSE 1
  IN  <<(s * n) \div g, (s * d) \div g>>

RInt(n) == <<n, 1>>

RAdd(p, q) == Rat(p[1] * q[2] + q[1] * p[2], p[2] * q[2])

RSub(p, q) == Rat(p[1] * q[2] - q[1] * p[2], p[2] * q[2])

RMul(p, q) == Rat(p[1] * q[1], p[2] * q[2])

RDiv(p, q) == Rat(p[1] * q[2], p[2] * q[1])

\* order and absolute value of rationals with positive denominators
RLess(p, q) == p[1] * q[2] < q[1] * p[2]

RAbs(p) == <<Abs(p[1]), p[2]>>

Zero == RInt(0)

\* the ways the float operations of a call round: without an error that
\* matters, or away from zero
FpRoundings == {"exact", "away"}

\* a rounding error: positive, and small against every quantity compared
Ulp == Rat(1, 1024)

\* the value computed for x, which lies exactly on the edge of its range
beyond(x) ==
  IF fp_rounding = "away"
  THEN IF RLess(x, Zero) THEN RSub(x, Ulp) ELSE RAdd(x, Ulp)
  ELSE x

\* x > limit for a computed x: on the limit, the rounding decides
exceeds(x, limit) == RLess(limit, x) \/ (x = limit /\ fp_rounding = "away")

----------------------------------------------------------------------------
(* Strings *)

UpperCase ==
  <<"A", "B", "C", "D", "E", "F", "G", "H", "I", "J", "K", "L", "M",
    "N", "O", "P", "Q", "R", "S", "T", "U", "V", "W", "X", "Y", "Z">>

LowerCase ==
  <<"a", "b", "c", "d", "e", "f", "g", "h", "i", "j", "k", "l", "m",
    "n", "o", "p", "q", "r", "s", "t", "u", "v", "w", "x", "y", "z">>

\* the lower-case letter of every upper-case letter, and conversely
ToLower ==
  [c \in {UpperCase[i] : i \in 1..26} |->
      LowerCase[CHOOSE i \in 1..26 : UpperCase[i] = c]]

ToUpper ==
  [c \in {LowerCase[i] : i \in 1..26} |->
      UpperCase[CHOOSE i \in 1..26 : LowerCase[i] = c]]

\* str.lower() on one character
lower_char(c) == IF c \in DOMAIN ToLower THEN ToLower[c] ELSE c

\* str.upper() on one character
upper_char(c) == IF c \in DOMAIN ToUpper THEN ToUpper[c] ELSE c

\* str.lower()
lower(s) == [i \in 1..Len(s) |-> lower_char(s[i])]

\* str.upper()
upper(s) == [i \in 1..Len(s) |-> upper_char(s[i])]

(* String operations used to enumerate and to characterise input keys *)

\* str.swapcase() on one character
swap_char(c) == IF lower_char(c) = c THEN upper_char(c) ELSE lower_char(c)

\* str.swapcase()
swapcase(s) == [i \in 1..Len(s) |-> swap_char(s[i])]

Whitespace == {" ", "\t", "\n"}

\* str.strip(): drop leading and trailing whitespace
RECURSIVE lstrip(_)
lstrip(s) == IF s # <<>> /\ Head(s) \in Whitespace THEN lstrip(Tail(s)) ELSE s

RECURSIVE rstrip(_)
rstrip(s) ==
  IF s # <<>> /\ s[Len(s)] \in Whitespace THEN rstrip(SubSeq(s, 1, Len(s) - 1)) ELSE s

strip(s) == rstrip(lstrip(s))

----------------------------------------------------------------------------
(* Reference catalog: reference_ranges.py, numbers in hundredths *)

CBC_REFERENCE_RANGES ==
  <<
  [key |-> <<"W", "B", "C">>,
     val |-> [low |-> <<400>>, high |-> <<1100>>, unit |-> "x10^3/uL",
             critical_low |-> <<200>>, critical_high |-> <<3000>>,
             aliases |-> <<<<"W", "h", "i", "t", "e", " ", "B", "l", "o", "o", "d", " ", "C", "e", "l", "l">>,
                           <<"L", "e", "u", "c", "o", "c", "y", "t", "e">>,
                           <<"L", "e", "u", "k", "o", "c", "y", "t", "e">>,
                           <<"T", "o", "t", "a", "l", " ", "W", "B", "C">>>>,
             male_low |-> <<>>, male_high |-> <<>>, female_low |-> <<>>, female_high |-> <<>>]],
    [key |-> <<"R", "B", "C">>,
     val |-> [low |-> <<400>>, high |-> <<550>>, unit |-> "x10^6/uL",
             critical_low |-> <<200>>, critical_high |-> <<750>>,
             aliases |-> <<<<"R", "e", "d", " ", "B", "l", "o", "o", "d", " ", "C", "e", "l", "l">>,
                           <<"E", "r", "y", "t", "h", "r", "o", "c", "y", "t", "e">>,
                           <<"T", "o", "t", "a", "l", " ", "R", "B", "C">>>>,
             male_low |-> <<450>>, male_high |-> <<550>>, female_low |-> <<400>>, female_high |-> <<500>>]],
    [key |-> <<"H", "e", "m", "o", "g", "l", "o", "b", "i", "n">>,
     val |-> [low |-> <<1200>>, high |-> <<1750>>, unit |-> "g/dL",
             critical_low |-> <<700>>, critical_high |-> <<2000>>,
             aliases |-> <<<<"H", "b">>,
                           <<"H", "g", "b">>,
                           <<"H", "a", "e", "m", "o", "g", "l", "o", "b", "i", "n">>>>,
             male_low |-> <<1350>>, male_high |-> <<1750>>, female_low |-> <<1200>>, female_high |-> <<1550>>]],
    [key |-> <<"H", "e", "m", "a", "t", "o", "c", "r", "i", "t">>,
     val |-> [low |-> <<3600>>, high |-> <<5400>>, unit |-> "%",
             critical_low |-> <<2000>>, critical_high |-> <<6000>>,
             aliases |-> <<<<"H", "C", "T">>,
                           <<"P", "C", "V">>,
                           <<"P", "a", "c", "k", "e", "d", " ", "C", "e", "l", "l", " ", "V", "o", "l", "u", "m", "e">>,
                           <<"H", "a", "e", "m", "a", "t", "o", "c", "r", "i", "t">>>>,
             male_low |-> <<3800>>, male_high |-> <<5400>>, female_low |-> <<3600>>, female_high |-> <<4800>>]],
    [key |-> <<"M", "C", "V">>,
     val |-> [low |-> <<8000>>, high |-> <<10000>>, unit |-> "fL",
             critical_low |-> <<5000>>, critical_high |-> <<13000>>,
             aliases |-> <<<<"M", "e", "a", "n", " ", "C", "o", "r", "p", "u", "s", "c", "u", "l", "a", "r", " ", "V", "o", "l", "u", "m", "e">>>>,
             male_low |-> <<>>, male_high |-> <<>>, female_low |-> <<>>, female_high |-> <<>>]],
    [key |-> <<"M", "C", "H">>,
     val |-> [low |-> <<2700>>, high |-> <<3300>>, unit |-> "pg",
             critical_low |-> <<1500>>, critical_high |-> <<4000>>,
             aliases |-> <<<<"M", "e", "a", "n", " ", "C", "o", "r", "p", "u", "s", "c", "u", "l", "a", "r", " ", "H", "e", "m", "o", "g", "l", "o", "b", "i", "n">>>>,
             male_low |-> <<>>, male_high |-> <<>>, female_low |-> <<>>, female_high |-> <<>>]],
    [key |-> <<"M", "C", "H", "C">>,
     val |-> [low |-> <<3200>>, high |-> <<3600>>, unit |-> "g/dL",
             critical_low |-> <<2500>>, critical_high |-> <<3800>>,
             aliases |-> <<<<"M", "e", "a", "n", " ", "C", "o", "r", "p", "u", "s", "c", "u", "l", "a", "r", " ", "H", "e", "m", "o", "g", "l", "o", "b", "i", "n", " ", "C", "o", "n", "c", "e", "n", "t", "r", "a", "t", "i", "o", "n">>>>,
             male_low |-> <<>>, male_high |-> <<>>, female_low |-> <<>>, female_high |-> <<>>]],
    [key |-> <<"R", "D", "W">>,
     val |-> [low |-> <<1150>>, high |-> <<1450>>, unit |-> "%",
             critical_low |-> <<>>, critical_high |-> <<2500>>,
             aliases |-> <<<<"R", "e", "d", " ", "C", "e", "l", "l", " ", "D", "i", "s", "t", "r", "i", "b", "u", "t", "i", "o", "n", " ", "W", "i", "d", "t", "h">>,
                           <<"R", "D", "W", "-", "C", "V">>>>,
             male_low |-> <<>>, male_high |-> <<>>, female_low |-> <<>>, female_high |-> <<>>]],
    [key |-> <<"P", "l", "a", "t", "e", "l", "e", "t", " ", "C", "o", "u", "n", "t">>,
     val |-> [low |-> <<15000>>, high |-> <<40000>>, unit |-> "x10^3/uL",
             critical_low |-> <<5000>>, critical_high |-> <<100000>>,
             aliases |-> <<<<"P", "L", "T">>,
                           <<"P", "l", "a", "t", "e", "l", "e", "t", "s">>,
                           <<"T", "h", "r", "o", "m", "b", "o", "c", "y", "t", "e", " ", "C", "o", "u", "n", "t">>>>,
             male_low |-> <<>>, male_high |-> <<>>, female_low |-> <<>>, female_high |-> <<>>]],
    [key |-> <<"M", "P", "V">>,
     val |-> [low |-> <<600>>, high |-> <<1200>>, unit |-> "fL",
             critical_low |-> <<>>, critical_high |-> <<>>,
             aliases |-> <<<<"M", "e", "a", "n", " ", "P", "l", "a", "t", "e", "l", "e", "t", " ", "V", "o", "l", "u", "m", "e">>>>,
             male_low |-> <<>>, male_high |-> <<>>, female_low |-> <<>>, female_high |-> <<>>]],
    [key |-> <<"N", "e", "u", "t", "r", "o", "p", "h", "i", "l", "s">>,
     val |-> [low |-> <<4000>>, high |-> <<7000>>, unit |-> "%",
             critical_low |-> <<>>, critical_high |-> <<>>,
             aliases |-> <<<<"N", "e", "u", "t">>,
                           <<"S", "e", "g", "m", "e", "n", "t", "e", "d", " ", "N", "e", "u", "t", "r", "o", "p", "h", "i", "l", "s">>,
                           <<"S", "e", "g", "s">>>>,
             male_low |-> <<>>, male_high |-> <<>>, female_low |-> <<>>, female_high |-> <<>>]],
    [key |-> <<"L", "y", "m", "p", "h", "o", "c", "y", "t", "e", "s">>,
     val |-> [low |-> <<2000>>, high |-> <<4000>>, unit |-> "%",
             critical_low |-> <<>>, critical_high |-> <<>>,
             aliases |-> <<<<"L", "y", "m", "p", "h">>>>,
             male_low |-> <<>>, male_high |-> <<>>, female_low |-> <<>>, female_high |-> <<>>]],
    [key |-> <<"M", "o", "n", "o", "c", "y", "t", "e", "s">>,
     val |-> [low |-> <<200>>, high |-> <<800>>, unit |-> "%",
             critical_low |-> <<>>, critical_high |-> <<>>,
             aliases |-> <<<<"M", "o", "n", "o">>>>,
             male_low |-> <<>>, male_high |-> <<>>, female_low |-> <<>>, female_high |-> <<>>]],
    [key |-> <<"E", "o", "s", "i", "n", "o", "p", "h", "i", "l", "s">>,
     val |-> [low |-> <<100>>, high |-> <<400>>, unit |-> "%",
             critical_low |-> <<>>, critical_high |-> <<>>,
             aliases |-> <<<<"E", "o", "s">>>>,
             male_low |-> <<>>, male_high |-> <<>>, female_low |-> <<>>, female_high |-> <<>>]],
    [key |-> <<"B", "a", "s", "o", "p", "h", "i", "l", "s">>,
     val |-> [low |-> <<0>>, high |-> <<100>>, unit |-> "%",
             critical_low |-> <<>>, critical_high |-> <<>>,
             aliases |-> <<<<"B", "a", "s", "o">>>>,
             male_low |-> <<>>, male_high |-> <<>>, female_low |-> <<>>, female_high |-> <<>>]],
    [key |-> <<"R", "e", "t", "i", "c", "u", "l", "o", "c", "y", "t", "e", " ", "C", "o", "u", "n", "t">>,
     val |-> [low |-> <<50>>, high |-> <<250>>, unit |-> "%",
             critical_low |-> <<>>, critical_high |-> <<>>,
             aliases |-> <<<<"R", "e", "t", "i", "c">>,
                           <<"R", "e", "t", "i", "c", "u", "l", "o", "c", "y", "t", "e", "s">>>>,
             male_low |-> <<>>, male_high |-> <<>>, female_low |-> <<>>, female_high |-> <<>>]],
    [key |-> <<"E", "S", "R">>,
     val |-> [low |-> <<0>>, high |-> <<2000>>, unit |-> "mm/hr",
             critical_low |-> <<>>, critical_high |-> <<>>,
             aliases |-> <<<<"E", "r", "y", "t", "h", "r", "o", "c", "y", "t", "e", " ", "S", "e", "d", "i", "m", "e", "n", "t", "a", "t", "i", "o", "n", " ", "R", "a", "t", "e">>>>,
             male_low |-> <<0>>, male_high |-> <<1500>>, female_low |-> <<0>>, female_high |-> <<2000>>]]
  >>

LFT_REFERENCE_RANGES ==
  <<
  [key |-> <<"T", "o", "t", "a", "l", " ", "B", "i", "l", "i", "r", "u", "b", "i", "n">>,
     val |-> [low |-> <<10>>, high |-> <<120>>, unit |-> "mg/dL",
             critical_low |-> <<>>, critical_high |-> <<1500>>,
             aliases |-> <<<<"T", ".", " ", "B", "i", "l", "i", "r", "u", "b", "i", "n">>,
                           <<"B", "i", "l", " ", "T", "o", "t", "a", "l">>>>,
             male_low |-> <<>>, male_high |-> <<>>, female_low |-> <<>>, female_high |-> <<>>]],
    [key |-> <<"D", "i", "r", "e", "c", "t", " ", "B", "i", "l", "i", "r", "u", "b", "i", "n">>,
     val |-> [low |-> <<0>>, high |-> <<30>>, unit |-> "mg/dL",
             critical_low |-> <<>>, critical_high |-> <<1000>>,
             aliases |-> <<<<"D", ".", " ", "B", "i", "l", "i", "r", "u", "b", "i", "n">>,
                           <<"C", "o", "n", "j", "u", "g", "a", "t", "e", "d", " ", "B", "i", "l", "i", "r", "u", "b", "i", "n">>>>,
             male_low |-> <<>>, male_high |-> <<>>, female_low |-> <<>>, female_high |-> <<>>]],
    [key |-> <<"I", "n", "d", "i", "r", "e", "c", "t", " ", "B", "i", "l", "i", "r", "u", "b", "i", "n">>,
     val |-> [low |-> <<10>>, high |-> <<90>>, unit |-> "mg/dL",
             critical_low |-> <<>>, critical_high |-> <<>>,
             aliases |-> <<<<"U", "n", "c", "o", "n", "j", "u", "g", "a", "t", "e", "d", " ", "B", "i", "l", "i", "r", "u", "b", "i", "n">>>>,
             male_low |-> <<>>, male_high |-> <<>>, female_low |-> <<>>, female_high |-> <<>>]],
    [key |-> <<"A", "S", "T">>,
     val |-> [low |-> <<500>>, high |-> <<4000>>, unit |-> "U/L",
             critical_low |-> <<>>, critical_high |-> <<100000>>,
             aliases |-> <<<<"S", "G", "O", "T">>,
                           <<"A", "s", "p", "a", "r", "t", "a", "t", "e", " ", "A", "m", "i", "n", "o", "t", "r", "a", "n", "s", "f", "e", "r", "a", "s", "e">>>>,
             male_low |-> <<>>, male_high |-> <<>>, female_low |-> <<>>, female_high |-> <<>>]],
    [key |-> <<"A", "L", "T">>,
     val |-> [low |-> <<500>>, high |-> <<4000>>, unit |-> "U/L",
             critical_low |-> <<>>, critical_high |-> <<100000>>,
             aliases |-> <<<<"S", "G", "P", "T">>,
                           <<"A", "l", "a", "n", "i", "n", "e", " ", "A", "m", "i", "n", "o", "t", "r", "a", "n", "s", "f", "e", "r", "a", "s", "e">>>>,
             male_low |-> <<>>, male_high |-> <<>>, female_low |-> <<>>, female_high |-> <<>>]],
    [key |-> <<"A", "L", "P">>,
     val |-> [low |-> <<4400>>, high |-> <<14700>>, unit |-> "U/L",
             critical_low |-> <<>>, critical_high |-> <<>>,
             aliases |-> <<<<"A", "l", "k", "a", "l", "i", "n", "e", " ", "P", "h", "o", "s", "p", "h", "a", "t", "a", "s", "e">>>>,
             male_low |-> <<>>, male_high |-> <<>>, female_low |-> <<>>, female_high |-> <<>>]],
    [key |-> <<"G", "G", "T">>,
     val |-> [low |-> <<0>>, high |-> <<6000>>, unit |-> "U/L",
             critical_low |-> <<>>, critical_high |-> <<>>,
             aliases |-> <<<<"G", "a", "m", "m", "a", " ", "G", "T">>,
                           <<"G", "a", "m", "m", "a", " ", "G", "l", "u", "t", "a", "m", "y", "l", " ", "T", "r", "a", "n", "s", "f", "e", "r", "a", "s", "e">>>>,
             male_low |-> <<>>, male_high |-> <<>>, female_low |-> <<>>, female_high |-> <<>>]],
    [key |-> <<"T", "o", "t", "a", "l", " ", "P", "r", "o", "t", "e", "i", "n">>,
     val |-> [low |-> <<600>>, high |-> <<830>>, unit |-> "g/dL",
             critical_low |-> <<400>>, critical_high |-> <<>>,
             aliases |-> <<<<"T", ".", " ", "P", "r", "o", "t", "e", "i", "n">>>>,
             male_low |-> <<>>, male_high |-> <<>>, female_low |-> <<>>, female_high |-> <<>>]],
    [key |-> <<"A", "l", "b", "u", "m", "i", "n">>,
     val |-> [low |-> <<350>>, high |-> <<550>>, unit |-> "g/dL",
             critical_low |-> <<200>>, critical_high |-> <<>>,
             aliases |-> <<<<"A", "l", "b">>>>,
             male_low |-> <<>>, male_high |-> <<>>, female_low |-> <<>>, female_high |-> <<>>]],
    [key |-> <<"G", "l", "o", "b", "u", "l", "i", "n">>,
     val |-> [low |-> <<200>>, high |-> <<350>>, unit |-> "g/dL",
             critical_low |-> <<>>, critical_high |-> <<>>,
             aliases |-> <<<<"G", "l", "o", "b">>>>,
             male_low |-> <<>>, male_high |-> <<>>, female_low |-> <<>>, female_high |-> <<>>]],
    [key |-> <<"A", "/", "G", " ", "R", "a", "t", "i", "o">>,
     val |-> [low |-> <<100>>, high |-> <<250>>, unit |-> "",
             critical_low |-> <<>>, critical_high |-> <<>>,
             aliases |-> <<<<"A", "l", "b", "u", "m", "i", "n", "/", "G", "l", "o", "b", "u", "l", "i", "n", " ", "R", "a", "t", "i", "o">>>>,
             male_low |-> <<>>, male_high |-> <<>>, female_low |-> <<>>, female_high |-> <<>>]]
  >>

KFT_REFERENCE_RANGES ==
  <<
  [key |-> <<"B", "U", "N">>,
     val |-> [low |-> <<700>>, high |-> <<2000>>, unit |-> "mg/dL",
             critical_low |-> <<>>, critical_high |-> <<10000>>,
             aliases |-> <<<<"B", "l", "o", "o", "d", " ", "U", "r", "e", "a", " ", "N", "i", "t", "r", "o", "g", "e", "n">>,
                           <<"U", "r", "e", "a">>>>,
             male_low |-> <<>>, male_high |-> <<>>, female_low |-> <<>>, female_high |-> <<>>]],
    [key |-> <<"C", "r", "e", "a", "t", "i", "n", "i", "n", "e">>,
     val |-> [low |-> <<60>>, high |-> <<120>>, unit |-> "mg/dL",
             critical_low |-> <<>>, critical_high |-> <<1000>>,
             aliases |-> <<<<"C", "r", "e", "a", "t">>,
                           <<"S", "e", "r", "u", "m", " ", "C", "r", "e", "a", "t", "i", "n", "i", "n", "e">>>>,
             male_low |-> <<70>>, male_high |-> <<130>>, female_low |-> <<60>>, female_high |-> <<110>>]],
    [key |-> <<"U", "r", "i", "c", " ", "A", "c", "i", "d">>,
     val |-> [low |-> <<300>>, high |-> <<700>>, unit |-> "mg/dL",
             critical_low |-> <<>>, critical_high |-> <<1300>>,
             aliases |-> <<<<"U", "r", "a", "t", "e">>>>,
             male_low |-> <<350>>, male_high |-> <<720>>, female_low |-> <<260>>, female_high |-> <<600>>]],
    [key |-> <<"e", "G", "F", "R">>,
     val |-> [low |-> <<9000>>, high |-> <<12000>>, unit |-> "mL/min/1.73m^2",
             critical_low |-> <<1500>>, critical_high |-> <<>>,
             aliases |-> <<<<"E", "s", "t", "i", "m", "a", "t", "e", "d", " ", "G", "F", "R">>,
                           <<"G", "l", "o", "m", "e", "r", "u", "l", "a", "r", " ", "F", "i", "l", "t", "r", "a", "t", "i", "o", "n", " ", "R", "a", "t", "e">>>>,
             male_low |-> <<>>, male_high |-> <<>>, female_low |-> <<>>, female_high |-> <<>>]],
    [key |-> <<"S", "o", "d", "i", "u", "m">>,
     val |-> [low |-> <<13600>>, high |-> <<14500>>, unit |-> "mEq/L",
             critical_low |-> <<12000>>, critical_high |-> <<16000>>,
             aliases |-> <<<<"N", "a">>,
                           <<"N", "a", "+">>>>,
             male_low |-> <<>>, male_high |-> <<>>, female_low |-> <<>>, female_high |-> <<>>]],
    [key |-> <<"P", "o", "t", "a", "s", "s", "i", "u", "m">>,
     val |-> [low |-> <<350>>, high |-> <<500>>, unit |-> "mEq/L",
             critical_low |-> <<250>>, critical_high |-> <<650>>,
             aliases |-> <<<<"K">>,
                           <<"K", "+">>>>,
             male_low |-> <<>>, male_high |-> <<>>, female_low |-> <<>>, female_high |-> <<>>]],
    [key |-> <<"C", "h", "l", "o", "r", "i", "d", "e">>,
     val |-> [low |-> <<9800>>, high |-> <<10600>>, unit |-> "mEq/L",
             critical_low |-> <<8000>>, critical_high |-> <<12000>>,
             aliases |-> <<<<"C", "l">>,
                           <<"C", "l", "-">>>>,
             male_low |-> <<>>, male_high |-> <<>>, female_low |-> <<>>, female_high |-> <<>>]],
    [key |-> <<"C", "a", "l", "c", "i", "u", "m">>,
     val |-> [low |-> <<850>>, high |-> <<1050>>, unit |-> "mg/dL",
             critical_low |-> <<600>>, critical_high |-> <<1300>>,
             aliases |-> <<<<"C", "a">>,
                           <<"C", "a", "+", "+">>,
                           <<"T", "o", "t", "a", "l", " ", "C", "a", "l", "c", "i", "u", "m">>>>,
             male_low |-> <<>>, male_high |-> <<>>, female_low |-> <<>>, female_high |-> <<>>]],
    [key |-> <<"P", "h", "o", "s", "p", "h", "o", "r", "u", "s">>,
     val |-> [low |-> <<250>>, high |-> <<450>>, unit |-> "mg/dL",
             critical_low |-> <<100>>, critical_high |-> <<800>>,
             aliases |-> <<<<"P", "h", "o", "s", "p", "h", "a", "t", "e">>,
                           <<"P", "O", "4">>>>,
             male_low |-> <<>>, male_high |-> <<>>, female_low |-> <<>>, female_high |-> <<>>]]
  >>

HBA1C_REFERENCE_RANGES ==
  <<
  [key |-> <<"H", "b", "A", "1", "c">>,
     val |-> [low |-> <<400>>, high |-> <<560>>, unit |-> "%",
             critical_low |-> <<>>, critical_high |-> <<1400>>,
             aliases |-> <<<<"G", "l", "y", "c", "a", "t", "e", "d", " ", "H", "e", "m", "o", "g", "l", "o", "b", "i", "n">>,
                           <<"A", "1", "c">>,
                           <<"G", "l", "y", "c", "o", "s", "y", "l", "a", "t", "e", "d", " ", "H", "e", "m", "o", "g", "l", "o", "b", "i", "n">>>>,
             male_low |-> <<>>, male_high |-> <<>>, female_low |-> <<>>, female_high |-> <<>>]],
    [key |-> <<"E", "s", "t", "i", "m", "a", "t", "e", "d", " ", "A", "v", "e", "r", "a", "g", "e", " ", "G", "l", "u", "c", "o", "s", "e">>,
     val |-> [low |-> <<7000>>, high |-> <<12600>>, unit |-> "mg/dL",
             critical_low |-> <<>>, critical_high |-> <<>>,
             aliases |-> <<<<"e", "A", "G">>,
                           <<"A", "v", "e", "r", "a", "g", "e", " ", "G", "l", "u", "c", "o", "s", "e">>>>,
             male_low |-> <<>>, male_high |-> <<>>, female_low |-> <<>>, female_high |-> <<>>]]
  >>

LIPID_PROFILE_REFERENCE_RANGES ==
  <<
  [key |-> <<"T", "o", "t", "a", "l", " ", "C", "h", "o", "l", "e", "s", "t", "e", "r", "o", "l">>,
     val |-> [low |-> <<0>>, high |-> <<20000>>, unit |-> "mg/dL",
             critical_low |-> <<>>, critical_high |-> <<40000>>,
             aliases |-> <<<<"T", "C">>,
                           <<"C", "h", "o", "l", "e", "s", "t", "e", "r", "o", "l", " ", "T", "o", "t", "a", "l">>>>,
             male_low |-> <<>>, male_high |-> <<>>, female_low |-> <<>>, female_high |-> <<>>]],
    [key |-> <<"L", "D", "L">>,
     val |-> [low |-> <<0>>, high |-> <<10000>>, unit |-> "mg/dL",
             critical_low |-> <<>>, critical_high |-> <<30000>>,
             aliases |-> <<<<"L", "D", "L", " ", "C", "h", "o", "l", "e", "s", "t", "e", "r", "o", "l">>,
                           <<"L", "o", "w", " ", "D", "e", "n", "s", "i", "t", "y", " ", "L", "i", "p", "o", "p", "r", "o", "t", "e", "i", "n">>,
                           <<"L", "D", "L", "-", "C">>>>,
             male_low |-> <<>>, male_high |-> <<>>, female_low |-> <<>>, female_high |-> <<>>]],
    [key |-> <<"H", "D", "L">>,
     val |-> [low |-> <<4000>>, high |-> <<6000>>, unit |-> "mg/dL",
             critical_low |-> <<>>, critical_high |-> <<>>,
             aliases |-> <<<<"H", "D", "L", " ", "C", "h", "o", "l", "e", "s", "t", "e", "r", "o", "l">>,
                           <<"H", "i", "g", "h", " ", "D", "e", "n", "s", "i", "t", "y", " ", "L", "i", "p", "o", "p", "r", "o", "t", "e", "i", "n">>,
                           <<"H", "D", "L", "-", "C">>>>,
             male_low |-> <<4000>>, male_high |-> <<>>, female_low |-> <<5000>>, female_high |-> <<>>]],
    [key |-> <<"T", "r", "i", "g", "l", "y", "c", "e", "r", "i", "d", "e", "s">>,
     val |-> [low |-> <<0>>, high |-> <<15000>>, unit |-> "mg/dL",
             critical_low |-> <<>>, critical_high |-> <<50000>>,
             aliases |-> <<<<"T", "G">>,
                           <<"T", "r", "i", "a", "c", "y", "l", "g", "l", "y", "c", "e", "r", "o", "l">>>>,
             male_low |-> <<>>, male_high |-> <<>>, female_low |-> <<>>, female_high |-> <<>>]],
    [key |-> <<"V", "L", "D", "L">>,
     val |-> [low |-> <<200>>, high |-> <<3000>>, unit |-> "mg/dL",
             critical_low |-> <<>>, critical_high |-> <<>>,
             aliases |-> <<<<"V", "L", "D", "L", " ", "C", "h", "o", "l", "e", "s", "t", "e", "r", "o", "l">>,
                           <<"V", "e", "r", "y", " ", "L", "o", "w", " ", "D", "e", "n", "s", "i", "t", "y", " ", "L", "i", "p", "o", "p", "r", "o", "t", "e", "i", "n">>>>,
             male_low |-> <<>>, male_high |-> <<>>, female_low |-> <<>>, female_high |-> <<>>]],
    [key |-> <<"T", "C", "/", "H", "D", "L", " ", "R", "a", "t", "i", "o">>,
     val |-> [low |-> <<0>>, high |-> <<500>>, unit |-> "",
             critical_low |-> <<>>, critical_high |-> <<>>,
             aliases |-> <<<<"C", "h", "o", "l", "e", "s", "t", "e", "r", "o", "l", "/", "H", "D", "L", " ", "R", "a", "t", "i", "o">>>>,
             male_low |-> <<>>, male_high |-> <<>>, female_low |-> <<>>, female_high |-> <<>>]]
  >>

IRON_STUDIES_REFERENCE_RANGES ==
  <<
  [key |-> <<"S", "e", "r", "u", "m", " ", "I", "r", "o", "n">>,
     val |-> [low |-> <<6000>>, high |-> <<17000>>, unit |-> "ug/dL",
             critical_low |-> <<>>, critical_high |-> <<>>,
             aliases |-> <<<<"I", "r", "o", "n">>,
                           <<"F", "e">>>>,
             male_low |-> <<6500>>, male_high |-> <<17500>>, female_low |-> <<5000>>, female_high |-> <<17000>>]],
    [key |-> <<"T", "I", "B", "C">>,
     val |-> [low |-> <<25000>>, high |-> <<37000>>, unit |-> "ug/dL",
             critical_low |-> <<>>, critical_high |-> <<>>,
             aliases |-> <<<<"T", "o", "t", "a", "l", " ", "I", "r", "o", "n", " ", "B", "i", "n", "d", "i", "n", "g", " ", "C", "a", "p", "a", "c", "i", "t", "y">>>>,
             male_low |-> <<>>, male_high |-> <<>>, female_low |-> <<>>, female_high |-> <<>>]],
    [key |-> <<"F", "e", "r", "r", "i", "t", "i", "n">>,
     val |-> [low |-> <<1200>>, high |-> <<30000>>, unit |-> "ng/mL",
             critical_low |-> <<>>, critical_high |-> <<100000>>,
             aliases |-> <<<<"S", "e", "r", "u", "m", " ", "F", "e", "r", "r", "i", "t", "i", "n">>>>,
             male_low |-> <<2000>>, male_high |-> <<30000>>, female_low |-> <<1200>>, female_high |-> <<15000>>]],
    [key |-> <<"T", "r", "a", "n", "s", "f", "e", "r", "r", "i", "n", " ", "S", "a", "t", "u", "r", "a", "t", "i", "o", "n">>,
     val |-> [low |-> <<2000>>, high |-> <<5000>>, unit |-> "%",
             critical_low |-> <<>>, critical_high |-> <<>>,
             aliases |-> <<<<"T", "S", "A", "T">>,
                           <<"I", "r", "o", "n", " ", "S", "a", "t", "u", "r", "a", "t", "i", "o", "n">>>>,
             male_low |-> <<>>, male_high |-> <<>>, female_low |-> <<>>, female_high |-> <<>>]]
  >>

TFT_REFERENCE_RANGES ==
  <<
  [key |-> <<"T", "S", "H">>,
     val |-> [low |-> <<40>>, high |-> <<400>>, unit |-> "mIU/L",
             critical_low |-> <<1>>, critical_high |-> <<5000>>,
             aliases |-> <<<<"T", "h", "y", "r", "o", "i", "d", " ", "S", "t", "i", "m", "u", "l", "a", "t", "i", "n", "g", " ", "H", "o", "r", "m", "o", "n", "e">>,
                           <<"T", "h", "y", "r", "o", "t", "r", "o", "p", "i", "n">>>>,
             male_low |-> <<>>, male_high |-> <<>>, female_low |-> <<>>, female_high |-> <<>>]],
    [key |-> <<"F", "r", "e", "e", " ", "T", "3">>,
     val |-> [low |-> <<230>>, high |-> <<420>>, unit |-> "pg/mL",
             critical_low |-> <<>>, critical_high |-> <<>>,
             aliases |-> <<<<"F", "T", "3">>,
                           <<"F", "r", "e", "e", " ", "T", "r", "i", "i", "o", "d", "o", "t", "h", "y", "r", "o", "n", "i", "n", "e">>>>,
             male_low |-> <<>>, male_high |-> <<>>, female_low |-> <<>>, female_high |-> <<>>]],
    [key |-> <<"F", "r", "e", "e", " ", "T", "4">>,
     val |-> [low |-> <<80>>, high |-> <<180>>, unit |-> "ng/dL",
             critical_low |-> <<>>, critical_high |-> <<>>,
             aliases |-> <<<<"F", "T", "4">>,
                           <<"F", "r", "e", "e", " ", "T", "h", "y", "r", "o", "x", "i", "n", "e">>>>,
             male_low |-> <<>>, male_high |-> <<>>, female_low |-> <<>>, female_high |-> <<>>]],
    [key |-> <<"T", "o", "t", "a", "l", " ", "T", "3">>,
     val |-> [low |-> <<8000>>, high |-> <<20000>>, unit |-> "ng/dL",
             critical_low |-> <<>>, critical_high |-> <<>>,
             aliases |-> <<<<"T", "3", " ", "T", "o", "t", "a", "l">>>>,
             male_low |-> <<>>, male_high |-> <<>>, female_low |-> <<>>, female_high |-> <<>>]],
    [key |-> <<"T", "o", "t", "a", "l", " ", "T", "4">>,
     val |-> [low |-> <<500>>, high |-> <<1200>>, unit |-> "ug/dL",
             critical_low |-> <<>>, critical_high |-> <<>>,
             aliases |-> <<<<"T", "4", " ", "T", "o", "t", "a", "l">>>>,
             male_low |-> <<>>, male_high |-> <<>>, female_low |-> <<>>, female_high |-> <<>>]]
  >>
----------------------------------------------------------------------------
(* get_reference_for_panel *)

Panels == {"CBC", "LFT", "KFT", "HbA1c", "Lipid Profile", "Iron Studies", "TFT"}

get_reference_for_panel(p) ==
  CASE p = "CBC" -> CBC_REFERENCE_RANGES
    [] p = "LFT" -> LFT_REFERENCE_RANGES
    [] p = "KFT" -> KFT_REFERENCE_RANGES
    [] p = "HbA1c" -> HBA1C_REFERENCE_RANGES
    [] p = "Lipid Profile" -> LIPID_PROFILE_REFERENCE_RANGES
    [] p = "Iron Studies" -> IRON_STUDIES_REFERENCE_RANGES
    [] p = "TFT" -> TFT_REFERENCE_RANGES
    [] OTHER -> <<>>

----------------------------------------------------------------------------
(* Raw values handed to the analysis *)

\* a float, e.g. 4.5
Num(n) == [kind |-> "float", num |-> n]

\* a numeric-like str, e.g. "4.5"
NumStr(n) == [kind |-> "str", num |-> n]

\* a str that is not a number, e.g. "abc"
Text == [kind |-> "text", num |-> 0]

\* the value None
Null == [kind |-> "none", num |-> 0]

\* float(value): the number, or the exception it raises
float(value) ==
  CASE value.kind = "float" -> [exc |-> "", val |-> value.num]
    [] value.kind = "str" -> [exc |-> "", val |-> value.num]
    [] value.kind = "text" -> [exc |-> "ValueError", val |-> 0]
    [] value.kind = "none" -> [exc |-> "TypeError", val |-> 0]

\* variant of the except clause: except ValueError only
CaughtOnlyValueError == {"ValueError"}

\* the exceptions of the except clause of analyze_parameter
Caught == {"ValueError", "TypeError"}

----------------------------------------------------------------------------
(* analyze_parameter *)

\* truth value of an optional float: None and 0.0 are false
Truthy(x) == x # None /\ x[1] # 0

\* variant of the chain: the bounds themselves count as outside the range
status_inclusive(val, ref_low, ref_high, critical_low, critical_high) ==
  IF critical_low # None /\ val <= critical_low[1] THEN "Critical Low"
  ELSE IF critical_high # None /\ val >= critical_high[1] THEN "Critical High"
  ELSE IF ref_low # None /\ val <= ref_low[1] THEN "Low"
  ELSE IF ref_high # None /\ val >= ref_high[1] THEN "High"
  ELSE "Normal"

\* variant of the chain: low and high tested before the critical bounds
status_low_before_critical(val, ref_low, ref_high, critical_low, critical_high) ==
  IF ref_low # None /\ val < ref_low[1] THEN "Low"
  ELSE IF ref_high # None /\ val > ref_high[1] THEN "High"
  ELSE IF critical_low # None /\ val < critical_low[1] THEN "Critical Low"
  ELSE IF critical_high # None /\ val > critical_high[1] THEN "Critical High"
  ELSE "Normal"

\* variant of the chain: critical_high tested before critical_low
status_critical_high_first(val, ref_low, ref_high, critical_low, critical_high) ==
  IF critical_high # None /\ val > critical_high[1] THEN "Critical High"
  ELSE IF critical_low # None /\ val < critical_low[1] THEN "Critical Low"
  ELSE IF ref_low # None /\ val < ref_low[1] THEN "Low"
  ELSE IF ref_high # None /\ val > ref_high[1] THEN "High"
  ELSE "Normal"

\* variant of the chain: an absent bound is compared as 0
status_none_as_zero(val, ref_low, ref_high, critical_low, critical_high) ==
  LET num(x) == IF x = None THEN 0 ELSE x[1]
  IN  IF val < num(critical_low) THEN "Critical Low"
      ELSE IF critical_high # None /\ val > critical_high[1] THEN "Critical High"
      ELSE IF val < num(ref_low) THEN "Low"
      ELSE IF ref_high # None /\ val > ref_high[1] THEN "High"
      ELSE "Normal"

\* the if/elif chain of analyze_parameter: which branch is taken
status_of(val, ref_low, ref_high, critical_low, critical_high) ==
  IF critical_low # None /\ val < critical_low[1] THEN "Critical Low"
  ELSE IF critical_high # None /\ val > critical_high[1] THEN "Critical High"
  ELSE IF ref_low # None /\ val < ref_low[1] THEN "Low"
  ELSE IF ref_high # None /\ val > ref_high[1] THEN "High"
  ELSE "Normal"

\* variant of the low-side deviation: signed, (val - ref_low) / ref_low * 100
below_pct_signed(val, ref_low) == RMul(RDiv(RInt(val - ref_low), RInt(ref_low)), RInt(100))

\* ((ref_low - val) / ref_low) * 100
below_pct(val, ref_low) == RMul(RDiv(RInt(ref_low - val), RInt(ref_low)), RInt(100))

\* ((val - ref_high) / ref_high) * 100
above_pct(val, ref_high) == RMul(RDiv(RInt(val - ref_high), RInt(ref_high)), RInt(100))

\* variant of the position within the range: divided by the whole span
within_pct_whole_span(val, ref_low, ref_high) ==
  LET mid == RDiv(RInt(ref_low + ref_high), RInt(2))
      range_span == RInt(ref_high - ref_low)
      pct == RMul(RDiv(RSub(RInt(val), mid), range_span), RInt(100))
  IN  IF val = ref_low \/ val = ref_high THEN beyond(pct) ELSE pct

\* mid = (ref_low + ref_high) / 2; range_span = ref_high - ref_low;
\* ((val - mid) / (range_span / 2)) * 100; for a value on a bound, where the
\* quotient is -1 or 1, the float result may lie just beyond -100 or 100
within_pct(val, ref_low, ref_high) ==
  LET mid == RDiv(RInt(ref_low + ref_high), RInt(2))
      range_span == RInt(ref_high - ref_low)
      pct == RMul(RDiv(RSub(RInt(val), mid), RDiv(range_span, RInt(2))), RInt(100))
  IN  IF val = ref_low \/ val = ref_high THEN beyond(pct) ELSE pct

\* variant of the deviation: guards "bound != 0" in place of "bound > 0"
deviation_nonzero_bound(status, val, ref_low, ref_high) ==
  CASE status = "Critical Low" ->
         IF Truthy(ref_low) THEN Some(below_pct(val, ref_low[1])) ELSE None
    [] status = "Critical High" ->
         IF Truthy(ref_high) THEN Some(above_pct(val, ref_high[1])) ELSE None
    [] status = "Low" ->
         IF ref_low[1] # 0 THEN Some(below_pct(val, ref_low[1])) ELSE None
    [] status = "High" ->
         IF ref_high[1] # 0 THEN Some(above_pct(val, ref_high[1])) ELSE None
    [] OTHER ->
         IF ref_low # None /\ ref_high # None /\ ref_high[1] > ref_low[1]
         THEN Some(within_pct(val, ref_low[1], ref_high[1]))
         ELSE None

\* variant of the deviation: 0 where the code leaves deviation_pct at None
deviation_zero_default(status, val, ref_low, ref_high) ==
  CASE status = "Critical Low" ->
         IF Truthy(ref_low) /\ ref_low[1] > 0
         THEN Some(below_pct(val, ref_low[1])) ELSE Some(RInt(0))
    [] status = "Critical High" ->
         IF Truthy(ref_high) /\ ref_high[1] > 0
         THEN Some(above_pct(val, ref_high[1])) ELSE Some(RInt(0))
    [] status = "Low" ->
         IF ref_low[1] > 0 THEN Some(below_pct(val, ref_low[1])) ELSE Some(RInt(0))
    [] status = "High" ->
         IF ref_high[1] > 0 THEN Some(above_pct(val, ref_high[1])) ELSE Some(RInt(0))
    [] OTHER ->
         IF ref_low # None /\ ref_high # None /\ ref_high[1] > ref_low[1]
         THEN Some(within_pct(val, ref_low[1], ref_high[1]))
         ELSE Some(RInt(0))

\* variant of the deviation: an out-of-range deviation is capped at 100
deviation_capped(status, val, ref_low, ref_high) ==
  LET cap(q) == IF q[1] > 100 * q[2] THEN RInt(100) ELSE q
  IN  CASE status = "Critical Low" ->
             IF Truthy(ref_low) /\ ref_low[1] > 0
             THEN Some(cap(below_pct(val, ref_low[1]))) ELSE None
        [] status = "Critical High" ->
             IF Truthy(ref_high) /\ ref_high[1] > 0
             THEN Some(cap(above_pct(val, ref_high[1]))) ELSE None
        [] status = "Low" ->
             IF ref_low[1] > 0 THEN Some(cap(below_pct(val, ref_low[1]))) ELSE None
        [] status = "High" ->
             IF ref_high[1] > 0 THEN Some(cap(above_pct(val, ref_high[1]))) ELSE None
        [] OTHER ->
             IF ref_low # None /\ ref_high # None /\ ref_high[1] > ref_low[1]
             THEN Some(within_pct(val, ref_low[1], ref_high[1]))
             ELSE None

\* deviation_pct as set in the branch that assigned the status
deviation_of(status, val, ref_low, ref_high) ==
  CASE status = "Critical Low" ->
         IF Truthy(ref_low) /\ ref_low[1] > 0
         THEN Some(below_pct(val, ref_low[1])) ELSE None
    [] status = "Critical High" ->
         IF Truthy(ref_high) /\ ref_high[1] > 0
         THEN Some(above_pct(val, ref_high[1])) ELSE None
    [] status = "Low" ->
         IF ref_low[1] > 0 THEN Some(below_pct(val, ref_low[1])) ELSE None
    [] status = "High" ->
         IF ref_high[1] > 0 THEN Some(above_pct(val, ref_high[1])) ELSE None
    [] OTHER ->
         IF ref_low # None /\ ref_high # None /\ ref_high[1] > ref_low[1]
         THEN Some(within_pct(val, ref_low[1], ref_high[1]))
         ELSE None

\* variant of the except branch: the status is left at its initial 'Normal'
unable_left_normal(result) == result

\* the except branch: the status assigned before the early return
unable_to_analyze(result) == [result EXCEPT !.status = "Unable to analyze"]

\* analyze_parameter(name, value, ref_info): the returned dict, or the
\* exception that escapes
analyze_parameter(name, value, info) ==
  LET result == [name |-> name,
                 value |-> value,
                 unit |-> info.unit,
                 ref_low |-> info.low,
                 ref_high |-> info.high,
                 status |-> "Normal",
                 deviation_pct |-> None]
      f == float(value)
  IN  IF f.exc # ""
      THEN IF f.exc \in Caught
           THEN [exc |-> "",
                 result |-> Some(unable_to_analyze(result))]
           ELSE [exc |-> f.exc, result |-> None]
      ELSE LET val == f.val
               ref_low == info.low
               ref_high == info.high
               critical_low == info.critical_low
               critical_high == info.critical_high
               status == status_of(val, ref_low, ref_high, critical_low, critical_high)
           IN  [exc |-> "",
                result |-> Some([result EXCEPT
                            !.status = status,
                            !.deviation_pct = deviation_of(status, val, ref_low, ref_high)])]

----------------------------------------------------------------------------
(* One call of analyze_parameter on an arbitrary value and reference entry *)

Bounds == -MaxBound..MaxBound

OptBounds == {None} \cup {Some(b) : b \in Bounds}

Numbers == -(MaxBound + 1)..(MaxBound + 1)

RawValues == {Num(n) : n \in Numbers} \cup {NumStr(n) : n \in Numbers} \cup {Text, Null}

\* a reference dict with any combination of present, absent and unordered bounds
Entry(l, h, cl, ch) ==
  [low |-> l, high |-> h, unit |-> "u", critical_low |-> cl, critical_high |-> ch,
   aliases |-> <<>>,
   male_low |-> None, male_high |-> None, female_low |-> None, female_high |-> None]

Entries == {Entry(l, h, cl, ch) : l \in OptBounds, h \in OptBounds,
                                  cl \in OptBounds, ch \in OptBounds}

TestName == <<"X">>

InitAnalyze ==
  /\ pc = "call"
  /\ panel_type = ""
  /\ patient_gender = ""
  /\ parameters = <<>>
  /\ param_name = TestName
  /\ param_value \in RawValues
  /\ ref_key = None
  /\ ref_info \in {Some(e) : e \in Entries}
  /\ analysis = None
  /\ analysis_results = <<>>
  /\ issues = <<>>
  /\ quality_notes = <<>>
  /\ fp_rounding \in FpRoundings
  /\ exc = ""
  /\ SessionIdle

AnalyzeParameter ==
  /\ pc = "call"
  /\ LET r == analyze_parameter(param_name, param_value, ref_info[1])
     IN  /\ analysis' = r.result
         /\ exc' = r.exc
  /\ pc' = "returned"
  /\ UNCHANGED <<panel_type, patient_gender, parameters, param_name, param_value,
                 ref_key, ref_info, analysis_results,
                 issues, quality_notes, fp_rounding>>
  /\ UNCHANGED session_vars

NextAnalyze == AnalyzeParameter

SpecAnalyze == InitAnalyze /\ [][NextAnalyze]_vars

----------------------------------------------------------------------------
(* display_parameters_grid: finding the reference entry of an input key *)

\* variant of the condition: compared without lower-casing
matches_case_sensitive(k, ref_val, name) ==
  \/ k = name
  \/ \E i \in 1..Len(ref_val.aliases) : ref_val.aliases[i] = name

\* variant of the condition: the input key is stripped before comparing
matches_stripped(k, ref_val, name) ==
  \/ lower(k) = lower(strip(name))
  \/ \E i \in 1..Len(ref_val.aliases) : lower(ref_val.aliases[i]) = lower(strip(name))

\* the condition of the lookup loop: the catalog key or one of the aliases
\* equals the input key after lower-casing both
matches(k, ref_val, name) ==
  \/ lower(k) = lower(name)
  \/ \E i \in 1..Len(ref_val.aliases) : lower(ref_val.aliases[i]) = lower(name)

\* the lookup loop: the first catalog item, in dict order, that matches
find_ref_info(reference_ranges, name) ==
  LET hits == {i \in 1..Len(reference_ranges) :
                  matches(reference_ranges[i].key, reference_ranges[i].val, name)}
  IN  IF hits = {}
      THEN [ref_key |-> None, ref_info |-> None]
      ELSE LET first == CHOOSE i \in hits : \A j \in hits : i <= j
           IN  [ref_key |-> Some(reference_ranges[first].key),
                ref_info |-> Some(reference_ranges[first].val)]

----------------------------------------------------------------------------
(* display_parameters_grid: the analysis of a whole panel *)

\* d[k] = v on a dict: replace the value of an existing key, else append
DictSet(d, k, v) ==
  IF \E i \in 1..Len(d) : d[i].key = k
  THEN [i \in 1..Len(d) |-> IF d[i].key = k THEN [key |-> k, val |-> v] ELSE d[i]]
  ELSE Append(d, [key |-> k, val |-> v])

DictKeys(d) == {d[i].key : i \in 1..Len(d)}

\* variant of the loop body: the result is named and stored under the catalog key
grid_item_keyed_by_catalog(acc, name, value, reference_ranges) ==
  LET f == find_ref_info(reference_ranges, name)
  IN  IF f.ref_info # None
      THEN LET a == analyze_parameter(f.ref_key[1], value, f.ref_info[1])
           IN  IF a.exc # ""
               THEN [exc |-> a.exc, results |-> acc.results]
               ELSE [exc |-> "", results |-> DictSet(acc.results, f.ref_key[1], a.result[1])]
      ELSE acc

\* variant of the loop body: a key without reference entry is analysed as well
grid_item_records_unknown(acc, name, value, reference_ranges) ==
  LET f == find_ref_info(reference_ranges, name)
      info == IF f.ref_info # None THEN f.ref_info[1]
              ELSE [low |-> None, high |-> None, unit |-> "",
                    critical_low |-> None, critical_high |-> None, aliases |-> <<>>,
                    male_low |-> None, male_high |-> None,
                    female_low |-> None, female_high |-> None]
      a == analyze_parameter(name, value, info)
  IN  IF a.exc # ""
      THEN [exc |-> a.exc, results |-> acc.results]
      ELSE [exc |-> "", results |-> DictSet(acc.results, name, a.result[1])]

\* one pass of the loop body for the item (name, value): the result dict
\* after it, or the exception that escapes
grid_item(acc, name, value, reference_ranges) ==
  LET f == find_ref_info(reference_ranges, name)
  IN  IF f.ref_info # None
      THEN LET a == analyze_parameter(name, value, f.ref_info[1])
           IN  IF a.exc # ""
               THEN [exc |-> a.exc, results |-> acc.results]
               ELSE [exc |-> "", results |-> DictSet(acc.results, name, a.result[1])]
      ELSE acc

\* the loop over param_list from item i on
RECURSIVE grid_loop(_, _, _, _)
grid_loop(acc, param_list, i, reference_ranges) ==
  IF i > Len(param_list) \/ acc.exc # ""
  THEN acc
  ELSE grid_loop(grid_item(acc, param_list[i].key, param_list[i].val, reference_ranges),
                 param_list, i + 1, reference_ranges)

\* display_parameters_grid(parameters, reference_ranges, panel_name): the
\* returned analysis_results, or the exception that escapes
display_parameters_grid(params, reference_ranges) ==
  IF params = <<>>
  THEN [exc |-> "", results |-> <<>>]
  ELSE grid_loop([exc |-> "", results |-> <<>>], params, 1, reference_ranges)

\* display_analysis_section: the items listed as abnormal and as critical
abnormal_params(results) ==
  SelectSeq(results, LAMBDA item : item.val.status # "Normal")

\* 'Critical' in status, on the status strings of analyze_parameter
ContainsCritical(status) == status \in {"Critical Low", "Critical High"}

critical_params(results) ==
  SelectSeq(abnormal_params(results), LAMBDA item : ContainsCritical(item.val.status))

\* the characters of the status strings, for the substring tests of the display
StatusText(status) ==
  CASE status = "Normal" -> <<"N", "o", "r", "m", "a", "l">>
    [] status = "Low" -> <<"L", "o", "w">>
    [] status = "High" -> <<"H", "i", "g", "h">>
    [] status = "Critical Low" -> <<"C", "r", "i", "t", "i", "c", "a", "l", " ", "L", "o", "w">>
    [] status = "Critical High" -> <<"C", "r", "i", "t", "i", "c", "a", "l", " ", "H", "i", "g", "h">>
    [] status = "Unable to analyze" -> <<"U", "n", "a", "b", "l", "e", " ", "t", "o", " ", "a", "n", "a", "l", "y", "z", "e">>
    [] status = "Unknown" -> <<"U", "n", "k", "n", "o", "w", "n">>

\* sub in s, on strings
Contains(sub, s) ==
  \E i \in 0..(Len(s) - Len(sub)) : SubSeq(s, i + 1, i + Len(sub)) = sub

\* variant of get_box_class: "Low" and "High" are tested before "Critical"
get_box_class_low_first(status) ==
  IF status = "Normal" THEN "parameter-box-normal"
  ELSE IF Contains(<<"L", "o", "w">>, StatusText(status)) THEN "parameter-box-low"
  ELSE IF Contains(<<"H", "i", "g", "h">>, StatusText(status)) THEN "parameter-box-high"
  ELSE IF Contains(<<"C", "r", "i", "t", "i", "c", "a", "l">>, StatusText(status)) THEN "parameter-box-critical"
  ELSE "parameter-box-normal"

\* get_box_class: the CSS class of a parameter box
get_box_class(status) ==
  IF status = "Normal" THEN "parameter-box-normal"
  ELSE IF Contains(<<"C", "r", "i", "t", "i", "c", "a", "l">>, StatusText(status)) THEN "parameter-box-critical"
  ELSE IF Contains(<<"L", "o", "w">>, StatusText(status)) THEN "parameter-box-low"
  ELSE IF Contains(<<"H", "i", "g", "h">>, StatusText(status)) THEN "parameter-box-high"
  ELSE "parameter-box-normal"

\* the marker of an abnormal parameter in the detailed analysis
marker(status) ==
  IF Contains(<<"C", "r", "i", "t", "i", "c", "a", "l">>, StatusText(status)) THEN "red" ELSE "yellow"

\* the analysed parameters whose box has the given class
boxes(results, class) ==
  SelectSeq(results, LAMBDA item : get_box_class(item.val.status) = class)

----------------------------------------------------------------------------
(* Looking one key up in the catalog of one panel *)

\* all canonical names and aliases of a catalog
NamesOf(reference_ranges) ==
  UNION {{reference_ranges[i].key} \cup
         {reference_ranges[i].val.aliases[j] :
             j \in 1..Len(reference_ranges[i].val.aliases)} :
         i \in 1..Len(reference_ranges)}

AllNames == UNION {NamesOf(get_reference_for_panel(p)) : p \in Panels}

FooBarParam == <<"F", "o", "o", "B", "a", "r", "P", "a", "r", "a", "m">>

\* keys derived from a name: other letter cases, surrounding whitespace, a
\* proper part of the name, and a longer key that contains the name
Variants(n) ==
  {n, lower(n), upper(n), swapcase(n),
   <<" ">> \o n, n \o <<" ">>, <<" ">> \o lower(n) \o <<"\t">>,
   Tail(n), SubSeq(n, 1, Len(n) - 1), n \o <<"s">>, <<"S", " ">> \o n}

LookupKeys == UNION {Variants(n) : n \in AllNames} \cup {FooBarParam}

InitResolve ==
  /\ pc = "lookup"
  /\ panel_type \in Panels
  /\ patient_gender = ""
  /\ parameters = <<>>
  /\ param_name \in LookupKeys
  /\ param_value = Null
  /\ ref_key = None
  /\ ref_info = None
  /\ analysis = None
  /\ analysis_results = <<>>
  /\ issues = <<>>
  /\ quality_notes = <<>>
  /\ fp_rounding = "exact"
  /\ exc = ""
  /\ SessionIdle

FindRefInfo ==
  /\ pc = "lookup"
  /\ LET f == find_ref_info(get_reference_for_panel(panel_type), param_name)
     IN  /\ ref_key' = f.ref_key
         /\ ref_info' = f.ref_info
  /\ pc' = "found"
  /\ UNCHANGED <<panel_type, patient_gender, parameters, param_name, param_value,
                 analysis, analysis_results, exc,
                 issues, quality_notes, fp_rounding>>
  /\ UNCHANGED session_vars

NextResolve == FindRefInfo

SpecResolve == InitResolve /\ [][NextResolve]_vars

----------------------------------------------------------------------------
(* Analysing a panel: the input dict is filled, then display_parameters_grid *)

Hemoglobin == <<"H", "e", "m", "o", "g", "l", "o", "b", "i", "n">>

\* input keys: a canonical name, aliases in another letter case, an alias of
\* another panel, and a key of no catalog
GridKeys ==
  {Hemoglobin, <<"h", "b">>, <<"I", "r", "o", "n">>, FooBarParam}

\* input values: 6.5, 10.0, 16.0, 18.0, 21.0 and a text; none of them lies on
\* a bound of its entry, so that the rounding has no part in this panel
GridValues == {Num(650), Num(1000), Num(1600), Num(1800), Num(2100), Text}

GridPanels == {"CBC", "Iron Studies"}

\* the choices of the Gender select box
Genders == {"Male", "Female", "Other"}

InitGrid ==
  /\ pc = "input"
  /\ panel_type \in GridPanels
  /\ patient_gender \in Genders
  /\ parameters = <<>>
  /\ param_name = <<>>
  /\ param_value = Null
  /\ ref_key = None
  /\ ref_info = None
  /\ analysis = None
  /\ analysis_results = <<>>
  /\ issues = <<>>
  /\ quality_notes = <<>>
  /\ fp_rounding = "exact"
  /\ exc = ""
  /\ SessionIdle

\* parameters[key] = value while the input dict is built
SetParameter ==
  /\ pc = "input"
  /\ \E k \in GridKeys, v \in GridValues :
        /\ k \in DictKeys(parameters) \/ Len(parameters) < MaxParams
        /\ parameters' = DictSet(parameters, k, v)
  /\ UNCHANGED <<pc, panel_type, patient_gender, param_name, param_value,
                 ref_key, ref_info, analysis, analysis_results, exc,
                 issues, quality_notes, fp_rounding>>
  /\ UNCHANGED session_vars

DisplayParametersGrid ==
  /\ pc = "input"
  /\ LET r == display_parameters_grid(parameters, get_reference_for_panel(panel_type))
     IN  /\ analysis_results' = r.results
         /\ exc' = r.exc
  /\ pc' = "shown"
  /\ UNCHANGED <<panel_type, patient_gender, parameters, param_name, param_value,
                 ref_key, ref_info, analysis,
                 issues, quality_notes, fp_rounding>>
  /\ UNCHANGED session_vars

NextGrid == SetParameter \/ DisplayParametersGrid

SpecGrid == InitGrid /\ [][NextGrid]_vars

----------------------------------------------------------------------------
(* get_sample_quality_assessment: the checks on the values of a CBC *)

\* the keys read by cbc_params.get
Key_RBC == <<"R", "B", "C">>

Key_Hb == <<"H", "b">>

Key_Hgb == <<"H", "g", "b">>

Key_Hematocrit == <<"H", "e", "m", "a", "t", "o", "c", "r", "i", "t">>

Key_HCT == <<"H", "C", "T">>

Key_PCV == <<"P", "C", "V">>

Key_MCV == <<"M", "C", "V">>

Key_MCHC == <<"M", "C", "H", "C">>

Key_Platelet == <<"P", "l", "a", "t", "e", "l", "e", "t", " ", "C", "o", "u", "n", "t">>

Key_Neutrophils == <<"N", "e", "u", "t", "r", "o", "p", "h", "i", "l", "s">>

Key_Lymphocytes == <<"L", "y", "m", "p", "h", "o", "c", "y", "t", "e", "s">>

Key_Monocytes == <<"M", "o", "n", "o", "c", "y", "t", "e", "s">>

Key_Eosinophils == <<"E", "o", "s", "i", "n", "o", "p", "h", "i", "l", "s">>

Key_Basophils == <<"B", "a", "s", "o", "p", "h", "i", "l", "s">>

\* cbc_params.get(key, 0)
get(d, key) ==
  IF \E i \in 1..Len(d) : d[i].key = key
  THEN d[CHOOSE i \in 1..Len(d) : d[i].key = key].val
  ELSE Num(0)

\* truth value of a raw value: 0.0, None and "" are false
truth(v) ==
  CASE v.kind = "float" -> v.num # 0
    [] v.kind = "none" -> FALSE
    [] OTHER -> TRUE

\* a or b
Or(a, b) == IF truth(a) THEN a ELSE b

\* v can be compared with a number and added to one
IsNumber(v) == v.kind = "float"

\* v1 > 0 and v2 > 0 and ..., evaluated left to right: "true", "false", or
\* "TypeError" when a value that is reached is not a number
RECURSIVE all_positive(_)
all_positive(vs) ==
  IF vs = <<>> THEN "true"
  ELSE IF ~IsNumber(Head(vs)) THEN "TypeError"
  ELSE IF Head(vs).num > 0 THEN all_positive(Tail(vs))
  ELSE "false"

\* a / b, which raises when b is 0
divide(a, b) ==
  IF b = Zero
  THEN [exc |-> "ZeroDivisionError", val |-> Zero]
  ELSE [exc |-> "", val |-> RDiv(a, b)]

\* abs(actual - expected) / expected * 100 if expected > 0 else 0
\* (the exact value; exceeds() compares its float)
deviation(actual, expected) ==
  IF RLess(Zero, expected)
  THEN LET d == divide(RAbs(RSub(actual, expected)), expected)
       IN  [exc |-> d.exc, val |-> RMul(d.val, RInt(100))]
  ELSE [exc |-> "", val |-> Zero]

\* the lists of the assessment and the exception that ended it, if any
raised(q) == [q EXCEPT !.exc = "TypeError"]

raise(q, e) == [q EXCEPT !.exc = e]

issue(q, text) == [q EXCEPT !.issues = Append(@, text)]

note(q, text) == [q EXCEPT !.quality_notes = Append(@, text)]

\* variant of the first Rule of Threes: the guard admits rbc = 0 and the
\* division is not conditional
rule_of_threes_hb_unguarded(q, rbc, hb) ==
  LET c == IF ~IsNumber(rbc) THEN "TypeError"
           ELSE IF rbc.num >= 0 THEN all_positive(<<hb>>)
           ELSE "false"
      expected_hb == RInt(rbc.num * 3)
      d == divide(RAbs(RSub(RInt(hb.num), expected_hb)), expected_hb)
      hb_deviation == [exc |-> d.exc, val |-> RMul(d.val, RInt(100))]
  IN  IF q.exc # "" THEN q
      ELSE IF c = "TypeError" THEN raised(q)
      ELSE IF c = "false" THEN q
      ELSE IF hb_deviation.exc # "" THEN raise(q, hb_deviation.exc)
      ELSE IF exceeds(hb_deviation.val, RInt(10)) THEN issue(q, "Rule of Threes (RBC x 3 = Hb)")
      ELSE note(q, "Rule of Threes (RBC x 3 = Hb): PASSES")

\* Rule of Threes, RBC x 3 against Hb
rule_of_threes_hb(q, rbc, hb) ==
  LET c == all_positive(<<rbc, hb>>)
      expected_hb == RInt(rbc.num * 3)
      hb_deviation == deviation(RInt(hb.num), expected_hb)
  IN  IF q.exc # "" THEN q
      ELSE IF c = "TypeError" THEN raised(q)
      ELSE IF c = "false" THEN q
      ELSE IF hb_deviation.exc # "" THEN raise(q, hb_deviation.exc)
      ELSE IF exceeds(hb_deviation.val, RInt(10)) THEN issue(q, "Rule of Threes (RBC x 3 = Hb)")
      ELSE note(q, "Rule of Threes (RBC x 3 = Hb): PASSES")

\* Rule of Threes, Hb x 3 against HCT
rule_of_threes_hct(q, hb, hct) ==
  LET c == all_positive(<<hb, hct>>)
      expected_hct == RInt(hb.num * 3)
      hct_deviation == deviation(RInt(hct.num), expected_hct)
  IN  IF q.exc # "" THEN q
      ELSE IF c = "TypeError" THEN raised(q)
      ELSE IF c = "false" THEN q
      ELSE IF hct_deviation.exc # "" THEN raise(q, hct_deviation.exc)
      ELSE IF exceeds(hct_deviation.val, RInt(10)) THEN issue(q, "Rule of Threes (Hb x 3 = HCT)")
      ELSE note(q, "Rule of Threes (Hb x 3 = HCT): PASSES")

\* variant of the MCHC check: the limits are those of the normal range, 32 and 36
mchc_check_normal_range(q, mchc) ==
  LET c == all_positive(<<mchc>>)
  IN  IF q.exc # "" THEN q
      ELSE IF c = "TypeError" THEN raised(q)
      ELSE IF c = "false" THEN q
      ELSE IF mchc.num > 3600 THEN issue(q, "Elevated MCHC")
      ELSE IF mchc.num < 3200 THEN issue(q, "Low MCHC")
      ELSE q

\* MCHC check
mchc_check(q, mchc) ==
  LET c == all_positive(<<mchc>>)
  IN  IF q.exc # "" THEN q
      ELSE IF c = "TypeError" THEN raised(q)
      ELSE IF c = "false" THEN q
      ELSE IF mchc.num > 3700 THEN issue(q, "Elevated MCHC")
      ELSE IF mchc.num < 3000 THEN issue(q, "Low MCHC")
      ELSE q

\* calculated_hct = rbc * mcv / 10 against the reported HCT; with the values
\* in hundredths the product is in ten-thousandths
calculated_hct_check(q, rbc, hb, hct, mcv) ==
  LET c == all_positive(<<hb, rbc, mcv>>)
      h == all_positive(<<hct>>)
      calculated_hct == Rat(rbc.num * mcv.num, 1000)
      calc_deviation == deviation(RInt(hct.num), calculated_hct)
  IN  IF q.exc # "" THEN q
      ELSE IF c = "TypeError" THEN raised(q)
      ELSE IF c = "false" THEN q
      ELSE IF h = "TypeError" THEN raised(q)
      ELSE IF h = "false" THEN q
      ELSE IF calc_deviation.exc # "" THEN raise(q, calc_deviation.exc)
      ELSE IF exceeds(calc_deviation.val, RInt(10)) THEN issue(q, "Calculated HCT deviates from reported HCT")
      ELSE q

\* sum(diff_values), starting from 0
RECURSIVE sum(_)
sum(vs) == IF vs = <<>> THEN 0 ELSE Head(vs).num + sum(Tail(vs))

\* the WBC differential adds up to about 100; the sum is a float, so that
\* terms that cancel exactly may leave a positive rounding error
differential_check(q, diff_values) ==
  LET diff_sum == sum(diff_values)
      cancelled == diff_sum = 0 /\ \E i \in 1..Len(diff_values) : diff_values[i].num # 0
  IN  IF q.exc # "" THEN q
      ELSE IF \E i \in 1..Len(diff_values) : ~IsNumber(diff_values[i]) THEN raised(q)
      ELSE IF ~(diff_sum > 0 \/ (cancelled /\ fp_rounding = "away")) THEN q
      ELSE IF exceeds(RInt(Abs(diff_sum - 10000)), RInt(500))
           THEN issue(q, "WBC differential sum")
      ELSE note(q, "WBC differential sums to about 100")

diff_params ==
  <<Key_Neutrophils, Key_Lymphocytes, Key_Monocytes, Key_Eosinophils, Key_Basophils>>

\* the lists built by get_sample_quality_assessment, check after check
get_sample_quality_assessment(cbc_params) ==
  LET rbc == get(cbc_params, Key_RBC)
      hb == Or(get(cbc_params, Hemoglobin), Or(get(cbc_params, Key_Hb), get(cbc_params, Key_Hgb)))
      hct == Or(get(cbc_params, Key_Hematocrit), Or(get(cbc_params, Key_HCT), get(cbc_params, Key_PCV)))
      mcv == get(cbc_params, Key_MCV)
      mchc == get(cbc_params, Key_MCHC)
      plt == get(cbc_params, Key_Platelet)
      diff_values == [i \in 1..Len(diff_params) |-> get(cbc_params, diff_params[i])]
      q0 == [exc |-> "", issues |-> <<>>, quality_notes |-> <<>>]
      q1 == rule_of_threes_hb(q0, rbc, hb)
      q2 == rule_of_threes_hct(q1, hb, hct)
      q3 == mchc_check(q2, mchc)
      q4 == calculated_hct_check(q3, rbc, hb, hct, mcv)
  IN  differential_check(q4, diff_values)

----------------------------------------------------------------------------
(* Assessing the sample quality of one CBC *)

\* one entry of an input dict
KV(k, n) == [key |-> k, val |-> Num(n)]

\* the RBC count: missing, zero, negative, 3.0, 3.1, None
RBCInputs ==
  {<<>>, <<KV(Key_RBC, 0)>>, <<KV(Key_RBC, -300)>>, <<KV(Key_RBC, 300)>>,
   <<KV(Key_RBC, 310)>>, <<[key |-> Key_RBC, val |-> Null]>>}

\* the hemoglobin under its three keys: 9.5 and 9.9 are within 10 per cent of
\* 3 x 3.0, 10.0 and 12.0 are not
HbInputs ==
  {<<>>, <<KV(Hemoglobin, 0)>>, <<KV(Hemoglobin, 950)>>, <<KV(Hemoglobin, 990)>>,
   <<KV(Hemoglobin, 1000)>>, <<KV(Hemoglobin, 1200)>>,
   <<KV(Hemoglobin, 0), KV(Key_Hb, 950)>>, <<KV(Key_Hgb, 1200)>>,
   <<[key |-> Hemoglobin, val |-> Text]>>}

\* the hematocrit under its three keys: 28.5 is 3 x 9.5, 31.35 is 10 per cent
\* above it, 36.0 is 3 x 12.0
HctInputs ==
  {<<>>, <<KV(Key_Hematocrit, 0)>>, <<KV(Key_Hematocrit, 2850)>>,
   <<KV(Key_Hematocrit, 3135)>>, <<KV(Key_Hematocrit, 3600)>>,
   <<KV(Key_Hematocrit, 0), KV(Key_HCT, 2850)>>, <<KV(Key_PCV, 3600)>>}

\* MCV: with RBC 3.0, 95.0 gives the calculated HCT 28.5, and 110.0 gives 33.0
MCVInputs == {<<>>, <<KV(Key_MCV, 0)>>, <<KV(Key_MCV, 9500)>>, <<KV(Key_MCV, 11000)>>}

\* MCHC around the limits 30 and 37, and as the string "29.0"
MCHCInputs ==
  {<<>>, <<KV(Key_MCHC, 0)>>, <<KV(Key_MCHC, 2900)>>, <<KV(Key_MCHC, 3000)>>,
   <<KV(Key_MCHC, 3700)>>, <<KV(Key_MCHC, 3800)>>,
   <<[key |-> Key_MCHC, val |-> NumStr(2900)]>>}

\* differentials summing to 0, 90, 95, 100, 105 and 106, one with a None, one
\* with a negative sum and one whose terms cancel
DiffInputs ==
  {<<>>, <<KV(Key_Neutrophils, 0)>>,
   <<KV(Key_Neutrophils, 6000), KV(Key_Lymphocytes, 3000)>>,
   <<KV(Key_Neutrophils, 3480), KV(Key_Lymphocytes, 3490), KV(Key_Monocytes, 2530)>>,
   <<KV(Key_Neutrophils, 6000), KV(Key_Lymphocytes, 3000), KV(Key_Monocytes, 600),
     KV(Key_Eosinophils, 300), KV(Key_Basophils, 100)>>,
   <<KV(Key_Neutrophils, 6000), KV(Key_Lymphocytes, 4500)>>,
   <<KV(Key_Neutrophils, 6000), KV(Key_Lymphocytes, 4600)>>,
   <<KV(Key_Neutrophils, 6000), [key |-> Key_Basophils, val |-> Null]>>,
   <<KV(Key_Neutrophils, -1000)>>,
   <<KV(Key_Neutrophils, 6000), KV(Key_Lymphocytes, -6000)>>}

InitQuality ==
  /\ pc = "call"
  /\ panel_type = "CBC"
  /\ patient_gender = ""
  /\ \E r \in RBCInputs, h \in HbInputs, c \in HctInputs, v \in MCVInputs,
        m \in MCHCInputs, d \in DiffInputs :
        parameters = r \o h \o c \o v \o m \o d
  /\ param_name = <<>>
  /\ param_value = Null
  /\ ref_key = None
  /\ ref_info = None
  /\ analysis = None
  /\ analysis_results = <<>>
  /\ issues = <<>>
  /\ quality_notes = <<>>
  /\ fp_rounding \in FpRoundings
  /\ exc = ""
  /\ SessionIdle

\* quality = get_sample_quality_assessment(parameters)
GetSampleQualityAssessment ==
  /\ pc = "call"
  /\ LET q == get_sample_quality_assessment(parameters)
     IN  /\ issues' = q.issues
         /\ quality_notes' = q.quality_notes
         /\ exc' = q.exc
  /\ pc' = "assessed"
  /\ UNCHANGED <<panel_type, patient_gender, parameters, param_name, param_value,
                 ref_key, ref_info, analysis, analysis_results, fp_rounding>>
  /\ UNCHANGED session_vars

NextQuality == GetSampleQualityAssessment

SpecQuality == InitQuality /\ [][NextQuality]_vars

----------------------------------------------------------------------------
(* Properties of analyze_parameter, specification SpecAnalyze *)

\* the value was converted by float()
Parsed == float(param_value).exc = ""

\* the converted value
Val == float(param_value).val

\* the call returned a result dict
Returned == pc = "returned" /\ analysis # None

\* the threshold conditions of the reference entry ref_info for the value
IsBelowCriticalLow ==
  ref_info[1].critical_low # None /\ Val < ref_info[1].critical_low[1]

IsAboveCriticalHigh ==
  ref_info[1].critical_high # None /\ Val > ref_info[1].critical_high[1]

IsBelowLow == ref_info[1].low # None /\ Val < ref_info[1].low[1]

IsAboveHigh == ref_info[1].high # None /\ Val > ref_info[1].high[1]

\* C1: for a numeric value the status is decided by the first condition that
\* holds in the order critical-low, critical-high, low, high, and is Normal
\* when none holds, for every entry, ordered or not.
C1_Precedence ==
  (pc = "returned" /\ Parsed) =>
     /\ analysis # None
     /\ IsBelowCriticalLow => analysis[1].status = "Critical Low"
     /\ (~IsBelowCriticalLow /\ IsAboveCriticalHigh) =>
           analysis[1].status = "Critical High"
     /\ (~IsBelowCriticalLow /\ ~IsAboveCriticalHigh /\ IsBelowLow) =>
           analysis[1].status = "Low"
     /\ (~IsBelowCriticalLow /\ ~IsAboveCriticalHigh /\ ~IsBelowLow /\ IsAboveHigh) =>
           analysis[1].status = "High"
     /\ (~IsBelowCriticalLow /\ ~IsAboveCriticalHigh /\ ~IsBelowLow /\ ~IsAboveHigh) =>
           analysis[1].status = "Normal"

\* all four conditions hold at once and the earliest one decided
C1_Witness ==
  /\ Returned /\ Parsed
  /\ IsBelowCriticalLow /\ IsAboveCriticalHigh /\ IsBelowLow /\ IsAboveHigh
  /\ analysis[1].status = "Critical Low"

\* C2: a numeric value strictly below a set critical_low is reported
\* Critical Low, whatever low, high and critical_high are.
C2_CriticalLowWins ==
  (pc = "returned" /\ Parsed /\ IsBelowCriticalLow) =>
     (analysis # None /\ analysis[1].status = "Critical Low")

\* below critical_low while also above critical_high and above high, low absent
C2_Witness ==
  /\ Returned /\ Parsed
  /\ IsBelowCriticalLow /\ IsAboveCriticalHigh /\ IsAboveHigh
  /\ ref_info[1].low = None
  /\ analysis[1].status = "Critical Low"

\* the six status values: Normal, Low, High, CriticalLow, CriticalHigh,
\* Unparseable as the strings analyze_parameter assigns
StatusValues ==
  {"Normal", "Low", "High", "Critical Low", "Critical High", "Unable to analyze"}

\* C3: every call, on a numeric or non-numeric raw value, returns a result
\* whose status is one of the six status values.
C3_StatusExhaustive ==
  pc = "returned" =>
     /\ exc = ""
     /\ analysis # None
     /\ analysis[1].status \in StatusValues

\* a None value was analysed and got a status
C3_Witness ==
  /\ Returned
  /\ param_value = Null
  /\ analysis[1].status = "Unable to analyze"

\* C4: a raw value that float() rejects yields the status Unable to analyze
\* with no deviation and no exception, whatever the thresholds of the entry.
C4_Unparseable ==
  (pc = "returned" /\ ~Parsed) =>
     /\ exc = ""
     /\ analysis # None
     /\ analysis[1].status = "Unable to analyze"
     /\ analysis[1].deviation_pct = None

\* a text value against an entry whose critical_low is above 0
C4_Witness ==
  /\ Returned
  /\ param_value = Text
  /\ ref_info[1].critical_low # None /\ ref_info[1].critical_low[1] > 0
  /\ analysis[1].status = "Unable to analyze"
  /\ analysis[1].deviation_pct = None

\* (low - value) / low * 100
ExpectedBelow == Rat((ref_info[1].low[1] - Val) * 100, ref_info[1].low[1])

\* (value - high) / high * 100
ExpectedAbove == Rat((Val - ref_info[1].high[1]) * 100, ref_info[1].high[1])

\* C10 as stated: the deviation of an out-of-range value is that formula for
\* every nonzero bound, negative ones included.
C10_NonzeroBound ==
  (Returned /\ Parsed) =>
     /\ (/\ analysis[1].status \in {"Low", "Critical Low"}
         /\ ref_info[1].low # None /\ ref_info[1].low[1] # 0) =>
           analysis[1].deviation_pct = Some(ExpectedBelow)
     /\ (/\ analysis[1].status \in {"High", "Critical High"}
         /\ ref_info[1].high # None /\ ref_info[1].high[1] # 0) =>
           analysis[1].deviation_pct = Some(ExpectedAbove)

\* C10 amended: the formula applies for every strictly positive bound; for a
\* negative bound no deviation is reported.
C10_PositiveBound ==
  (Returned /\ Parsed) =>
     /\ (/\ analysis[1].status \in {"Low", "Critical Low"}
         /\ ref_info[1].low # None) =>
           /\ ref_info[1].low[1] > 0 => analysis[1].deviation_pct = Some(ExpectedBelow)
           /\ ref_info[1].low[1] < 0 => analysis[1].deviation_pct = None
     /\ (/\ analysis[1].status \in {"High", "Critical High"}
         /\ ref_info[1].high # None) =>
           /\ ref_info[1].high[1] > 0 => analysis[1].deviation_pct = Some(ExpectedAbove)
           /\ ref_info[1].high[1] < 0 => analysis[1].deviation_pct = None

\* a value above a positive high bound: 3 against high 2 deviates by 50 percent
C10_Witness ==
  /\ Returned /\ Parsed
  /\ analysis[1].status = "High"
  /\ ref_info[1].high = Some(2) /\ Val = 3
  /\ analysis[1].deviation_pct = Some(<<50, 1>>)

----------------------------------------------------------------------------
(* Properties of the key lookup, specification SpecResolve *)

\* two characters are the same letter in either case, or the same character
SameLetter(x, y) ==
  x = y \/ \E i \in 1..26 : {x, y} = {UpperCase[i], LowerCase[i]}

\* two strings are equal up to letter case
EqIgnoreCase(a, b) ==
  Len(a) = Len(b) /\ \A i \in 1..Len(a) : SameLetter(a[i], b[i])

\* the catalog of the selected panel
Catalog == get_reference_for_panel(panel_type)

\* the canonical name and the aliases of one catalog item
EntryNames(item) ==
  {item.key} \cup {item.val.aliases[j] : j \in 1..Len(item.val.aliases)}

\* C6: the canonical name and every alias of a catalog entry, in any letter
\* case, resolve to that same entry.
C6_NameAndAliasesResolveAlike ==
  pc = "found" =>
     \A i \in 1..Len(Catalog) : \A n \in EntryNames(Catalog[i]) :
        EqIgnoreCase(param_name, n) =>
           /\ ref_key = Some(Catalog[i].key)
           /\ ref_info = Some(Catalog[i].val)

\* the alias Haemoglobin in upper case resolved to the entry Hemoglobin
C6_Witness ==
  /\ pc = "found"
  /\ panel_type = "CBC"
  /\ param_name = <<"H", "A", "E", "M", "O", "G", "L", "O", "B", "I", "N">>
  /\ ref_key = Some(<<"H", "e", "m", "o", "g", "l", "o", "b", "i", "n">>)

----------------------------------------------------------------------------
(* Properties of display_parameters_grid, specification SpecGrid *)

\* the input key equals a name or alias of the panel's catalog up to case
Resolvable(k) ==
  \E i \in 1..Len(Catalog) : \E n \in EntryNames(Catalog[i]) : EqIgnoreCase(k, n)

\* the catalog item an input key resolves to
ItemOf(k) ==
  Catalog[CHOOSE i \in 1..Len(Catalog) :
             \E n \in EntryNames(Catalog[i]) : EqIgnoreCase(k, n)]

\* the input dict without its unresolvable keys
ResolvableOnly(params) == SelectSeq(params, LAMBDA item : Resolvable(item.key))

\* the bound in force for the selected gender: the override when there is one
Effective(unisex, male, female) ==
  IF patient_gender = "Male" /\ male # None THEN male
  ELSE IF patient_gender = "Female" /\ female # None THEN female
  ELSE unisex

\* C5: with a sex supplied, a sex-specific override replaces the unisex bound
\* in the reported reference bounds and in the status.
C5_SexSpecificBounds ==
  pc = "shown" =>
     \A j \in 1..Len(analysis_results) :
        LET r == analysis_results[j].val
            e == ItemOf(analysis_results[j].key).val
            eff_low == Effective(e.low, e.male_low, e.female_low)
            eff_high == Effective(e.high, e.male_high, e.female_high)
            v == float(r.value)
        IN  /\ r.ref_low = eff_low
            /\ r.ref_high = eff_high
            /\ (v.exc = "" /\ eff_high # None /\ v.val > eff_high[1]) =>
                  r.status \in {"High", "Critical High", "Critical Low"}
            /\ (v.exc = "" /\ eff_low # None /\ v.val < eff_low[1]) =>
                  r.status \in {"Low", "Critical Low", "Critical High"}

\* C8: an unresolvable key gives no result and no exception; a panel of only
\* unresolvable keys gives an empty result, and the other keys are analysed
\* as if the unresolvable ones were absent.
C8_UnresolvableSkipped ==
  pc = "shown" =>
     /\ exc = ""
     /\ \A k \in DictKeys(parameters) :
           ~Resolvable(k) => k \notin DictKeys(analysis_results)
     /\ (\A k \in DictKeys(parameters) : ~Resolvable(k)) => analysis_results = <<>>
     /\ analysis_results =
           display_parameters_grid(ResolvableOnly(parameters), Catalog).results

\* a CBC panel of FooBarParam and Hemoglobin produced the Hemoglobin result only
C8_Witness ==
  /\ pc = "shown"
  /\ panel_type = "CBC"
  /\ Len(parameters) = 2
  /\ parameters[1].key = FooBarParam
  /\ parameters[2].key = Hemoglobin
  /\ DictKeys(analysis_results) = {Hemoglobin}

\* the names listed by display_analysis_section
ListedNames(results) ==
  {abnormal_params(results)[j].key : j \in 1..Len(abnormal_params(results))}
  \cup {critical_params(results)[j].key : j \in 1..Len(critical_params(results))}

----------------------------------------------------------------------------
(* Further properties of analyze_parameter, specification SpecAnalyze *)

\* the reported deviation, when there is one
Dev == analysis[1].deviation_pct[1]

LowSide == {"Low", "Critical Low"}

HighSide == {"High", "Critical High"}

\* the cases in which no deviation formula applies
NoFormulaApplies ==
  \/ ~Parsed
  \/ /\ analysis[1].status \in LowSide
     /\ (ref_info[1].low = None \/ ref_info[1].low[1] = 0)
  \/ /\ analysis[1].status \in HighSide
     /\ (ref_info[1].high = None \/ ref_info[1].high[1] = 0)
  \/ /\ analysis[1].status = "Normal"
     /\ \/ ref_info[1].low = None
        \/ ref_info[1].high = None
        \/ ref_info[1].high[1] <= ref_info[1].low[1]

\* a Normal value at the midpoint of the range
NormalAtMidpoint ==
  /\ analysis[1].status = "Normal"
  /\ ref_info[1].low # None /\ ref_info[1].high # None
  /\ 2 * Val = ref_info[1].low[1] + ref_info[1].high[1]

\* a critical value that equals the normal bound of its side
CriticalOnNormalBound ==
  \/ /\ analysis[1].status = "Critical Low"
     /\ ref_info[1].low # None /\ Val = ref_info[1].low[1]
  \/ /\ analysis[1].status = "Critical High"
     /\ ref_info[1].high # None /\ Val = ref_info[1].high[1]

\* (value - midpoint) / halfSpan * 100, exactly
ExpectedWithin ==
  Rat((2 * Val - ref_info[1].low[1] - ref_info[1].high[1]) * 100,
      ref_info[1].high[1] - ref_info[1].low[1])

\* the status is Normal and the range has two ordered bounds
NormalInRange ==
  /\ Returned /\ Parsed
  /\ analysis[1].status = "Normal"
  /\ ref_info[1].low # None /\ ref_info[1].high # None
  /\ ref_info[1].high[1] > ref_info[1].low[1]

\* C11 as stated: a Normal value in a range with high > low has the deviation
\* (value - midpoint) / halfSpan * 100, which lies within [-100, 100].
C11_WithinHundred ==
  NormalInRange =>
     /\ analysis[1].deviation_pct = Some(ExpectedWithin)
     /\ ~RLess(Dev, RInt(-100)) /\ ~RLess(RInt(100), Dev)

\* C11 amended: the deviation is that formula up to the rounding error of its
\* float evaluation; the exact value lies within [-100, 100], and the reported
\* one lies beyond by no more than the rounding error.
C11_WithinHundredRounded ==
  NormalInRange =>
     /\ analysis[1].deviation_pct # None
     /\ ~RLess(Ulp, RAbs(RSub(Dev, ExpectedWithin)))
     /\ ~RLess(ExpectedWithin, RInt(-100)) /\ ~RLess(RInt(100), ExpectedWithin)
     /\ ~RLess(RAdd(RInt(100), Ulp), RAbs(Dev))

\* the value 0 in the range 0 to 2 has a deviation just below -100
C11_Witness ==
  /\ NormalInRange
  /\ ref_info[1].low = Some(0) /\ ref_info[1].high = Some(2) /\ Val = 0
  /\ analysis[1].deviation_pct = Some(RSub(RInt(-100), Ulp))

\* C12 as stated: where no deviation formula applies the deviation is absent,
\* and a deviation of exactly zero occurs only for a Normal value at the
\* midpoint of the range.
C12_ZeroOnlyAtMidpoint ==
  Returned =>
     /\ NoFormulaApplies => analysis[1].deviation_pct = None
     /\ analysis[1].deviation_pct = Some(Zero) => NormalAtMidpoint

\* C12 amended: where no deviation formula applies the deviation is absent,
\* and a deviation of exactly zero occurs only for a Normal value at the
\* midpoint or for a critical value that equals the normal bound of its side.
C12_AbsentNotZero ==
  Returned =>
     /\ NoFormulaApplies => analysis[1].deviation_pct = None
     /\ analysis[1].deviation_pct = Some(Zero) =>
           (NormalAtMidpoint \/ CriticalOnNormalBound)

\* a value below low = 0 is Low and its deviation is absent, not zero
C12_Witness ==
  /\ Returned /\ Parsed
  /\ analysis[1].status = "Low"
  /\ ref_info[1].low = Some(0)
  /\ analysis[1].deviation_pct = None

\* C13 as stated: a reported deviation is negative for Low and CriticalLow
\* and positive for High and CriticalHigh.
C13_SignedDeviation ==
  (Returned /\ Parsed /\ analysis[1].deviation_pct # None) =>
     /\ analysis[1].status \in LowSide => RLess(Dev, Zero)
     /\ analysis[1].status \in HighSide => RLess(Zero, Dev)

\* C13 amended: a reported deviation is positive on both sides, for a value
\* below the normal low bound as for a value above the normal high bound.
C13_PositiveDeviation ==
  (Returned /\ Parsed /\ analysis[1].deviation_pct # None) =>
     /\ (analysis[1].status \in LowSide /\ IsBelowLow) => RLess(Zero, Dev)
     /\ (analysis[1].status \in HighSide /\ IsAboveHigh) => RLess(Zero, Dev)
     /\ analysis[1].status = "Low" => IsBelowLow
     /\ analysis[1].status = "High" => IsAboveHigh

\* the value 1 below low = 2 is Low with the positive deviation 50
C13_Witness ==
  /\ Returned /\ Parsed
  /\ analysis[1].status = "Low"
  /\ ref_info[1].low = Some(2) /\ Val = 1
  /\ analysis[1].deviation_pct = Some(<<50, 1>>)

\* the result for another value against the same reference entry
Other(v) == analyze_parameter(param_name, Num(v), ref_info[1]).result[1]

\* v lies further from the bound b than the analysed value
Further(v, b) == Abs(v - b) > Abs(Val - b)

\* the deviation of the other result is reported and larger in magnitude
LargerDeviation(o) ==
  /\ analysis[1].deviation_pct # None
  /\ o.deviation_pct # None
  /\ RLess(RAbs(Dev), RAbs(o.deviation_pct[1]))

\* C14 as stated: of two out-of-range values on the same side the one
\* further from the normal bound has the strictly larger deviation magnitude.
C14_Monotone ==
  (Returned /\ Parsed) =>
     \A v \in Numbers :
        /\ (/\ analysis[1].status \in LowSide /\ Other(v).status \in LowSide
            /\ ref_info[1].low # None /\ Further(v, ref_info[1].low[1])) =>
              LargerDeviation(Other(v))
        /\ (/\ analysis[1].status \in HighSide /\ Other(v).status \in HighSide
            /\ ref_info[1].high # None /\ Further(v, ref_info[1].high[1])) =>
              LargerDeviation(Other(v))

\* C14 amended: the same, provided the normal bound of that side is strictly
\* positive.
C14_MonotonePositiveBound ==
  (Returned /\ Parsed) =>
     \A v \in Numbers :
        /\ (/\ analysis[1].status \in LowSide /\ Other(v).status \in LowSide
            /\ ref_info[1].low # None /\ ref_info[1].low[1] > 0
            /\ Further(v, ref_info[1].low[1])) =>
              LargerDeviation(Other(v))
        /\ (/\ analysis[1].status \in HighSide /\ Other(v).status \in HighSide
            /\ ref_info[1].high # None /\ ref_info[1].high[1] > 0
            /\ Further(v, ref_info[1].high[1])) =>
              LargerDeviation(Other(v))

\* the value 1 is Low against low = 2, critical_low = 1, and the further
\* value 0 is Critical Low with a larger deviation
C14_Witness ==
  /\ Returned /\ Parsed
  /\ ref_info[1].low = Some(2) /\ ref_info[1].critical_low = Some(1)
  /\ Val = 1
  /\ analysis[1].status = "Low"
  /\ Other(0).status = "Critical Low"
  /\ LargerDeviation(Other(0))

\* C15: an absent bound is never checked and never an error; an entry without
\* any bound classifies every numeric value as Normal.
C15_AbsentBoundUnchecked ==
  (pc = "returned" /\ Parsed) =>
     /\ exc = ""
     /\ analysis # None
     /\ ref_info[1].low = None => analysis[1].status # "Low"
     /\ ref_info[1].high = None => analysis[1].status # "High"
     /\ ref_info[1].critical_low = None => analysis[1].status # "Critical Low"
     /\ ref_info[1].critical_high = None => analysis[1].status # "Critical High"
     /\ (/\ ref_info[1].low = None /\ ref_info[1].high = None
         /\ ref_info[1].critical_low = None /\ ref_info[1].critical_high = None) =>
           analysis[1].status = "Normal"

\* a negative value against an entry without any bound is Normal
C15_Witness ==
  /\ Returned /\ Parsed
  /\ ref_info[1].low = None /\ ref_info[1].high = None
  /\ ref_info[1].critical_low = None /\ ref_info[1].critical_high = None
  /\ Val < 0
  /\ analysis[1].status = "Normal"

----------------------------------------------------------------------------
(* The listings of the panel display, specification SpecGrid *)

Shown == pc = "shown" /\ exc = ""

\* the elements of a sequence
Range(seq) == {seq[i] : i \in DOMAIN seq}

\* the keys listed in the critical alert, in low boxes and in high boxes
CriticalListing == {item.key : item \in Range(critical_params(analysis_results))}

LowListing == {item.key : item \in Range(boxes(analysis_results, "parameter-box-low"))}

HighListing == {item.key : item \in Range(boxes(analysis_results, "parameter-box-high"))}

\* C16: the critical, low and high listings are pairwise disjoint, and a
\* parameter with a critical status is listed as critical only.
C16_ListingsExclusive ==
  Shown =>
     /\ CriticalListing \cap LowListing = {}
     /\ CriticalListing \cap HighListing = {}
     /\ LowListing \cap HighListing = {}
     /\ \A item \in Range(analysis_results) :
           /\ item.val.status \in {"Critical Low", "Critical High"} =>
                 /\ item.key \in CriticalListing
                 /\ item.key \notin LowListing \cup HighListing
                 /\ get_box_class(item.val.status) = "parameter-box-critical"
                 /\ marker(item.val.status) = "red"
           /\ item.key \in LowListing => item.val.status = "Low"
           /\ item.key \in HighListing => item.val.status = "High"
           /\ item.key \in CriticalListing =>
                 item.val.status \in {"Critical Low", "Critical High"}

\* a critically low and a low parameter are shown together
C16_Witness ==
  /\ Shown
  /\ \E a, b \in Range(analysis_results) :
        /\ a.val.status = "Critical Low" /\ a.key \in CriticalListing
        /\ b.val.status = "Low" /\ b.key \in LowListing

----------------------------------------------------------------------------
(* Properties of get_sample_quality_assessment, specification SpecQuality *)

\* the assessment ran to its end
Assessed == pc = "assessed" /\ exc = ""

\* the values the assessment reads from the input dict
RBCRead == get(parameters, Key_RBC)

HbRead ==
  IF truth(get(parameters, Hemoglobin)) THEN get(parameters, Hemoglobin)
  ELSE IF truth(get(parameters, Key_Hb)) THEN get(parameters, Key_Hb)
  ELSE get(parameters, Key_Hgb)

HctRead ==
  IF truth(get(parameters, Key_Hematocrit)) THEN get(parameters, Key_Hematocrit)
  ELSE IF truth(get(parameters, Key_HCT)) THEN get(parameters, Key_HCT)
  ELSE get(parameters, Key_PCV)

MCHCRead == get(parameters, Key_MCHC)

\* present and positive
PositiveNumber(v) == v.kind = "float" /\ v.num > 0

\* how often a text occurs in a list
CountOf(list, text) == Cardinality({i \in DOMAIN list : list[i] = text})

\* |actual - expected| / expected exceeds 10 per cent, for expected > 0
ExceedsTenPercent(actual, expected) == Abs(actual - expected) * 100 > 10 * expected

\* C18: with RBC and Hb both positive, the first Rule of Threes is flagged
\* exactly when |Hb - 3 RBC| / (3 RBC) exceeds 10 per cent and otherwise one
\* pass note is recorded; with either missing or not positive there is neither.
C18_RuleOfThreesHb ==
  Assessed =>
     LET flagged == CountOf(issues, "Rule of Threes (RBC x 3 = Hb)")
         passed == CountOf(quality_notes, "Rule of Threes (RBC x 3 = Hb): PASSES")
     IN  IF PositiveNumber(RBCRead) /\ PositiveNumber(HbRead)
         THEN IF ExceedsTenPercent(HbRead.num, 3 * RBCRead.num)
              THEN flagged = 1 /\ passed = 0
              ELSE flagged = 0 /\ passed = 1
         ELSE flagged = 0 /\ passed = 0

\* C19: with Hb and HCT both positive, the second Rule of Threes is flagged
\* exactly when |HCT - 3 Hb| / (3 Hb) exceeds 10 per cent and otherwise a pass
\* note is recorded, whether or not RBC is present.
C19_RuleOfThreesHct ==
  Assessed =>
     LET flagged == CountOf(issues, "Rule of Threes (Hb x 3 = HCT)")
         passed == CountOf(quality_notes, "Rule of Threes (Hb x 3 = HCT): PASSES")
     IN  IF PositiveNumber(HbRead) /\ PositiveNumber(HctRead)
         THEN IF ExceedsTenPercent(HctRead.num, 3 * HbRead.num)
              THEN flagged = 1 /\ passed = 0
              ELSE flagged = 0 /\ passed = 1
         ELSE flagged = 0 /\ passed = 0

\* C20: an MCHC issue is flagged exactly when MCHC is positive and above 37
\* or below 30.
C20_MCHCSanity ==
  Assessed =>
     LET elevated == CountOf(issues, "Elevated MCHC")
         low == CountOf(issues, "Low MCHC")
     IN  /\ elevated = IF PositiveNumber(MCHCRead) /\ MCHCRead.num > 3700 THEN 1 ELSE 0
         /\ low = IF PositiveNumber(MCHCRead) /\ MCHCRead.num < 3000 THEN 1 ELSE 0

\* MCHC 29.0 is flagged as low
C20_Witness ==
  /\ Assessed
  /\ MCHCRead = Num(2900)
  /\ CountOf(issues, "Low MCHC") = 1

\* the MCV the assessment reads
MCVRead == get(parameters, Key_MCV)

\* the exact sum of the five differential percentages, a missing one being 0
DiffSum == sum([i \in 1..Len(diff_params) |-> get(parameters, diff_params[i])])

\* C21: the five differential percentages are summed with missing ones as 0;
\* for a nonzero sum the issue is flagged exactly when |sum - 100| > 5, and
\* for a zero sum there is neither an issue nor a note.
C21_DifferentialSum ==
  Assessed =>
     LET flagged == CountOf(issues, "WBC differential sum")
         noted == CountOf(quality_notes, "WBC differential sums to about 100")
     IN  IF DiffSum # 0
         THEN flagged = IF Abs(DiffSum - 10000) > 500 THEN 1 ELSE 0
         ELSE flagged = 0 /\ noted = 0

\* every value of the input dict is a number
AllNumeric == \A i \in 1..Len(parameters) : parameters[i].val.kind = "float"

\* C22: on numeric inputs the assessment ends without an exception, and a
\* relative deviation is computed only for a strictly positive divisor: a
\* check with a divisor that is not positive leaves no issue and no note.
C22_NoDivisionByZero ==
  (pc = "assessed" /\ AllNumeric) =>
     /\ exc = ""
     /\ ~(3 * RBCRead.num > 0) =>
           /\ CountOf(issues, "Rule of Threes (RBC x 3 = Hb)") = 0
           /\ CountOf(quality_notes, "Rule of Threes (RBC x 3 = Hb): PASSES") = 0
     /\ ~(3 * HbRead.num > 0) =>
           /\ CountOf(issues, "Rule of Threes (Hb x 3 = HCT)") = 0
           /\ CountOf(quality_notes, "Rule of Threes (Hb x 3 = HCT): PASSES") = 0
     /\ ~(RBCRead.num * MCVRead.num > 0) =>
           CountOf(issues, "Calculated HCT deviates from reported HCT") = 0

\* RBC 0 with Hb 9.5 and HCT 28.5: the first rule is skipped, the second passes
C22_Witness ==
  /\ pc = "assessed" /\ AllNumeric /\ exc = ""
  /\ RBCRead = Num(0) /\ HbRead = Num(950) /\ HctRead = Num(2850)
  /\ CountOf(issues, "Rule of Threes (RBC x 3 = Hb)") = 0
  /\ CountOf(quality_notes, "Rule of Threes (RBC x 3 = Hb): PASSES") = 0
  /\ CountOf(quality_notes, "Rule of Threes (Hb x 3 = HCT): PASSES") = 1

\* C23: the sample-quality assessment completes without an exception also on
\* values that are not numbers.
C23_NeverRaises == pc = "assessed" => exc = ""

\* C26: with RBC, Hb, MCV and HCT all positive the calculated-HCT issue is
\* flagged exactly when |HCT - RBC * MCV / 10| / (RBC * MCV / 10) * 100 > 10;
\* with any of the four missing or not positive it is not flagged.
C26_CalculatedHct ==
  Assessed =>
     LET flagged == CountOf(issues, "Calculated HCT deviates from reported HCT")
         product == RBCRead.num * MCVRead.num
     IN  IF /\ PositiveNumber(RBCRead) /\ PositiveNumber(HbRead)
            /\ PositiveNumber(MCVRead) /\ PositiveNumber(HctRead)
         THEN flagged =
                IF Abs(HctRead.num * 1000 - product) * 100 > 10 * product THEN 1 ELSE 0
         ELSE flagged = 0

-----------------------------------------------------------------------------
(* Values on a threshold, specification SpecAnalyze *)

\* the value equals the bound b of the reference entry
OnBound(b) == b # None /\ Val = b[1]

\* a <= b for two bounds that are both present
InOrder(a, b) == (a # None /\ b # None) => a[1] <= b[1]

\* the present bounds satisfy critical_low <= low <= high <= critical_high
Ordered ==
  LET e == ref_info[1]
  IN  /\ InOrder(e.critical_low, e.low) /\ InOrder(e.critical_low, e.high)
      /\ InOrder(e.critical_low, e.critical_high)
      /\ InOrder(e.low, e.high) /\ InOrder(e.low, e.critical_high)
      /\ InOrder(e.high, e.critical_high)

NotCritical == {"Low", "High", "Normal"}

\* C25 as stated: a value equal to low or to high is Normal, with a deviation
\* of exactly -100 or +100 when both bounds are present and high > low; a value
\* equal to critical_low or critical_high is Low, High or Normal.
C25_BoundsAreNormal ==
  (Returned /\ Parsed) =>
     LET e == ref_info[1]
     IN  /\ (OnBound(e.low) \/ OnBound(e.high)) => analysis[1].status = "Normal"
         /\ (OnBound(e.low) /\ NormalInRange) =>
               analysis[1].deviation_pct = Some(RInt(-100))
         /\ (OnBound(e.high) /\ NormalInRange) =>
               analysis[1].deviation_pct = Some(RInt(100))
         /\ (OnBound(e.critical_low) \/ OnBound(e.critical_high)) =>
               analysis[1].status \in NotCritical

\* C25 amended: every comparison is strict, so a value equal to a bound never
\* gets the status of that bound; with the present bounds in the order
\* critical_low <= low <= high <= critical_high a value equal to low or high is
\* Normal and one equal to a critical bound is Low, High or Normal; the
\* deviation on low or high is -100 or +100 up to the rounding error.
C25_StrictThresholds ==
  (Returned /\ Parsed) =>
     LET e == ref_info[1]
     IN  /\ OnBound(e.critical_low) => analysis[1].status # "Critical Low"
         /\ OnBound(e.critical_high) => analysis[1].status # "Critical High"
         /\ OnBound(e.low) => analysis[1].status # "Low"
         /\ OnBound(e.high) => analysis[1].status # "High"
         /\ (Ordered /\ (OnBound(e.low) \/ OnBound(e.high))) =>
               analysis[1].status = "Normal"
         /\ (Ordered /\ (OnBound(e.critical_low) \/ OnBound(e.critical_high))) =>
               analysis[1].status \in NotCritical
         /\ (OnBound(e.low) /\ NormalInRange) =>
               /\ analysis[1].deviation_pct # None
               /\ ~RLess(Ulp, RAbs(RSub(Dev, RInt(-100))))
         /\ (OnBound(e.high) /\ NormalInRange) =>
               /\ analysis[1].deviation_pct # None
               /\ ~RLess(Ulp, RAbs(RSub(Dev, RInt(100))))

\* the value 2 on the high bound of -1 to 2, with critical bounds -2 and 2
C25_Witness ==
  /\ Returned /\ Parsed /\ Val = 2
  /\ ref_info[1].low = Some(-1) /\ ref_info[1].high = Some(2)
  /\ ref_info[1].critical_low = Some(-2) /\ ref_info[1].critical_high = Some(2)
  /\ analysis[1].status = "Normal"
  /\ analysis[1].deviation_pct = Some(RInt(100))

-----------------------------------------------------------------------------
(* Liver injury pattern (R ratio) *)

\* ALT against its upper limit of normal, 40 U/L
alt_ratio(a) == Rat(a, 40)

\* ALP against its upper limit of normal, 147 U/L
alp_ratio(p) == Rat(p, 147)

\* variant of the rule: the thresholds 5 and 2 themselves count as mixed
liver_injury_pattern_strict(a, p) ==
  IF alp_ratio(p) = Zero
  THEN [exc |-> "", pattern |-> "insufficient data"]
  ELSE LET R == divide(alt_ratio(a), alp_ratio(p))
       IN  [exc |-> R.exc,
            pattern |-> IF RLess(RInt(5), R.val) THEN "hepatocellular"
                        ELSE IF RLess(R.val, RInt(2)) THEN "cholestatic"
                        ELSE "mixed"]

\* R = (ALT / 40) / (ALP / 147) and the pattern it falls in
liver_injury_pattern(a, p) ==
  IF alp_ratio(p) = Zero
  THEN [exc |-> "", pattern |-> "insufficient data"]
  ELSE LET R == divide(alt_ratio(a), alp_ratio(p))
       IN  [exc |-> R.exc,
            pattern |-> IF ~RLess(R.val, RInt(5)) THEN "hepatocellular"
                        ELSE IF ~RLess(RInt(2), R.val) THEN "cholestatic"
                        ELSE "mixed"]

\* ALT and ALP in U/L, on both sides of the thresholds and on them
ALTValues == {0, 40, 80, 81, 120, 199, 200, 201, 400}

ALPValues == {0, 44, 95, 147, 148, 300}

InitLiver ==
  /\ pc = "call"
  /\ panel_type = "LFT"
  /\ patient_gender = ""
  /\ parameters = <<>>
  /\ param_name = <<>>
  /\ param_value = Null
  /\ ref_key = None
  /\ ref_info = None
  /\ analysis = None
  /\ analysis_results = <<>>
  /\ issues = <<>>
  /\ quality_notes = <<>>
  /\ fp_rounding = "exact"
  /\ exc = ""
  /\ alt \in ALTValues /\ alp \in ALPValues /\ liver_pattern = ""
  /\ provider = <<>> /\ api_key = None /\ remote_ok = TRUE /\ review = None
  /\ session_state = EmptySession /\ run_id = 0 /\ ai_section = ""
  /\ form_values = <<>>

LiverInjuryPattern ==
  /\ pc = "call"
  /\ LET r == liver_injury_pattern(alt, alp)
     IN  /\ liver_pattern' = r.pattern
         /\ exc' = r.exc
  /\ pc' = "classified"
  /\ UNCHANGED analysis_vars
  /\ UNCHANGED <<alt, alp, provider, api_key, remote_ok, review, session_state,
                 run_id, ai_section, form_values>>

NextLiver == LiverInjuryPattern

SpecLiver == InitLiver /\ [][NextLiver]_vars

\* C24: the rule reports insufficient data, without dividing, when ALP is
\* zero; otherwise hepatocellular exactly when R >= 5, cholestatic exactly
\* when R <= 2 and mixed exactly when 2 < R < 5, R being (ALT/40)/(ALP/147).
C24_LiverPattern ==
  pc = "classified" =>
     /\ exc = ""
     /\ (liver_pattern = "insufficient data") <=> (alp = 0)
     /\ (liver_pattern = "hepatocellular") <=> (alp # 0 /\ 147 * alt >= 5 * 40 * alp)
     /\ (liver_pattern = "cholestatic") <=> (alp # 0 /\ 147 * alt <= 2 * 40 * alp)
     /\ (liver_pattern = "mixed") <=>
           (alp # 0 /\ 147 * alt > 2 * 40 * alp /\ 147 * alt < 5 * 40 * alp)

\* ALT 120 with ALP 95: R is about 4.64
C24_Witness ==
  pc = "classified" /\ alt = 120 /\ alp = 95 /\ liver_pattern = "mixed"

-----------------------------------------------------------------------------
(* get_ai_review *)

LocalProvider == <<"L", "o", "c", "a", "l", " ", "A", "n", "a", "l", "y", "s", "i", "s", " ", "(", "N", "o", " ", "A", "P", "I", " ", "n", "e", "e", "d", "e", "d", ")">>

OpenAI == <<"O", "p", "e", "n", "A", "I">>

Google == <<"G", "o", "o", "g", "l", "e">>

\* bool(api_key)
has_key(key) == key # None /\ key[1] # <<>>

KeyRequired == "Error: API Key is required for AI providers."

UnknownProvider == "Unknown AI provider selected."

\* _prepare_data_summary: the patient line and the findings of every panel
prepare_data_summary(all_analysis, patient_info) ==
  [patient |-> patient_info, findings |-> all_analysis]

\* _generate_local_review
generate_local_review(data_summary, patient_info) ==
  [generator |-> "local", text |-> "Clinical Review Summary (Rule-Based)",
   summary |-> Some(data_summary)]

\* _generate_openai_review: the response, or the error text of the except branch
generate_openai_review(data_summary, key, ok) ==
  [generator |-> "openai", text |-> IF ok THEN "response" ELSE "OpenAI Error",
   summary |-> Some(data_summary)]

\* _generate_gemini_review: the response, or the error text of the except branch
generate_gemini_review(data_summary, key, ok) ==
  [generator |-> "gemini", text |-> IF ok THEN "response" ELSE "Gemini Error",
   summary |-> Some(data_summary)]

\* a message returned without any generator
message(text) == [generator |-> "", text |-> text, summary |-> None]

\* variant of the routing: "Google" is looked for before "OpenAI"
get_ai_review_google_first(parsed_results, all_analysis, patient_info, prov, key, ok) ==
  LET data_summary == prepare_data_summary(all_analysis, patient_info)
  IN  IF prov = LocalProvider THEN generate_local_review(data_summary, patient_info)
      ELSE IF ~has_key(key) THEN message(KeyRequired)
      ELSE IF Contains(Google, prov) THEN generate_gemini_review(data_summary, key, ok)
      ELSE IF Contains(OpenAI, prov) THEN generate_openai_review(data_summary, key, ok)
      ELSE message(UnknownProvider)

\* get_ai_review(parsed_results, all_analysis, patient_info, provider, api_key)
get_ai_review(parsed_results, all_analysis, patient_info, prov, key, ok) ==
  LET data_summary == prepare_data_summary(all_analysis, patient_info)
  IN  IF prov = LocalProvider THEN generate_local_review(data_summary, patient_info)
      ELSE IF ~has_key(key) THEN message(KeyRequired)
      ELSE IF Contains(OpenAI, prov) THEN generate_openai_review(data_summary, key, ok)
      ELSE IF Contains(Google, prov) THEN generate_gemini_review(data_summary, key, ok)
      ELSE message(UnknownProvider)

\* the three options of the selectbox of main()
AppProviders ==
  {<<"O", "p", "e", "n", "A", "I", " ", "(", "G", "P", "T", "-", "4", ")">>,
   <<"G", "o", "o", "g", "l", "e", " ", "(", "G", "e", "m", "i", "n", "i", ")">>,
   LocalProvider}

\* further names a caller can pass: both words, neither, other letter case
Providers ==
  AppProviders \cup
  {<<"G", "o", "o", "g", "l", "e", " ", "O", "p", "e", "n", "A", "I">>,
   <<"O", "p", "e", "n", "A", "I", " ", "v", "i", "a", " ", "G", "o", "o", "g", "l", "e">>,
   <<"M", "i", "s", "t", "r", "a", "l">>,
   <<"o", "p", "e", "n", "a", "i">>,
   <<"l", "o", "c", "a", "l", " ", "a", "n", "a", "l", "y", "s", "i", "s", " ", "(", "n", "o", " ", "a", "p", "i", " ", "n", "e", "e", "d", "e", "d", ")">>}

\* None, the empty string and two keys
ApiKeys == {None, Some(<<>>), Some(<<"k">>), Some(<<"s", "k">>)}

\* what one analysis run stores: the run that wrote it and its data
Stored(run, data) == [run |-> run, data |-> data]

InitReview ==
  /\ pc = "call"
  /\ panel_type = ""
  /\ patient_gender = ""
  /\ parameters = <<>>
  /\ param_name = <<>>
  /\ param_value = Null
  /\ ref_key = None
  /\ ref_info = None
  /\ analysis = None
  /\ analysis_results = <<>>
  /\ issues = <<>>
  /\ quality_notes = <<>>
  /\ fp_rounding = "exact"
  /\ exc = ""
  /\ alt = 0 /\ alp = 0 /\ liver_pattern = ""
  /\ provider \in Providers /\ api_key \in ApiKeys /\ remote_ok \in BOOLEAN
  /\ review = None
  /\ session_state = [all_analysis |-> Some(Stored(1, <<"CBC">>)),
                      parsed_results |-> Some(Stored(1, <<"CBC">>)),
                      patient_info |-> Some(Stored(1, "Male"))]
  /\ run_id = 1 /\ ai_section = ""
  /\ form_values = <<>>

GetAiReview ==
  /\ pc = "call"
  /\ review' = Some(get_ai_review(session_state.parsed_results[1],
                                  session_state.all_analysis[1],
                                  session_state.patient_info[1],
                                  provider, api_key, remote_ok))
  /\ pc' = "reviewed"
  /\ UNCHANGED analysis_vars
  /\ UNCHANGED <<exc, alt, alp, liver_pattern, provider, api_key, remote_ok,
                 session_state, run_id, ai_section, form_values>>

NextReview == GetAiReview

SpecReview == InitReview /\ [][NextReview]_vars

\* a remote generator was called
Remote == review[1].generator \in {"openai", "gemini"}

\* C27: a remote provider is contacted exactly when the provider is not the
\* local one, the key is not empty and the name contains "OpenAI" or "Google",
\* "OpenAI" first; the local provider needs no key; without a key any other
\* provider gets the key error; an unrecognised provider with a key gets the
\* unknown-provider message.
C27_Routing ==
  pc = "reviewed" =>
     /\ Remote <=> /\ provider # LocalProvider
                   /\ has_key(api_key)
                   /\ (Contains(OpenAI, provider) \/ Contains(Google, provider))
     /\ (Remote /\ Contains(OpenAI, provider)) => review[1].generator = "openai"
     /\ (Remote /\ ~Contains(OpenAI, provider)) => review[1].generator = "gemini"
     /\ provider = LocalProvider => review[1].generator = "local"
     /\ (provider # LocalProvider /\ ~has_key(api_key)) =>
           review[1] = message(KeyRequired)
     /\ (/\ provider # LocalProvider /\ has_key(api_key)
         /\ ~Contains(OpenAI, provider) /\ ~Contains(Google, provider)) =>
           review[1] = message(UnknownProvider)

\* a name with both words and a key: the OpenAI generator is called
C27_Witness ==
  /\ pc = "reviewed"
  /\ Contains(OpenAI, provider) /\ Contains(Google, provider)
  /\ has_key(api_key)
  /\ review[1].generator = "openai"

-----------------------------------------------------------------------------
(* One browser session of main(): every action is one run of the script *)

\* largest number of script runs of a session
MaxRuns == 3

\* st.session_state.get(key, {}): the stored value, or an empty dict
session_get(state, key) == IF state[key] = None THEN Stored(0, <<>>) ELSE state[key][1]

\* variant of the guard of the review button: the review is always generated
review_allowed_unchecked(state) == TRUE

\* 'all_analysis' in st.session_state and st.session_state['all_analysis']
review_allowed(state) ==
  state.all_analysis # None /\ state.all_analysis[1].data # <<>>

\* the panels parse_blood_report found in the uploaded document
UploadPanels == <<"CBC", "LFT">>

\* how the processing of an uploaded document can end: no file chosen, the
\* extraction raising, no text, no parameter found, an exception after
\* parsed_results and patient_info were stored, and a complete analysis
UploadOutcomes ==
  {"no file", "extraction error", "no text", "no parameters", "analysis error",
   "analysed"}

\* variant of the upload branch: nothing is stored unless the analysis completes
upload_branch_stores_at_end(state, outcome, run, gender) ==
  IF outcome = "analysed"
  THEN [all_analysis |-> Some(Stored(run, UploadPanels)),
        parsed_results |-> Some(Stored(run, UploadPanels)),
        patient_info |-> Some(Stored(run, gender))]
  ELSE state

\* the upload branch of main(): what it leaves in the session state
upload_branch(state, outcome, run, gender) ==
  IF outcome \in {"no file", "extraction error", "no text", "no parameters"}
  THEN state
  ELSE LET parsed == [state EXCEPT !.parsed_results = Some(Stored(run, UploadPanels)),
                                   !.patient_info = Some(Stored(run, gender))]
       IN  IF outcome = "analysis error"
           THEN parsed
           ELSE [parsed EXCEPT !.all_analysis = Some(Stored(run, UploadPanels))]

\* how the manual branch can end: the button not pressed, no value entered,
\* an exception during the analysis, and a complete analysis
ManualOutcomes == {"not pressed", "no parameters", "analysis error", "analysed"}

\* the manual branch of main(): what it leaves in the session state
manual_branch(state, outcome, run, panel, gender) ==
  IF outcome = "analysed"
  THEN [all_analysis |-> Some(Stored(run, <<panel>>)),
        parsed_results |-> Some(Stored(run, <<panel>>)),
        patient_info |-> Some(Stored(run, gender))]
  ELSE state

\* the AI review section: the review button and what it shows
ai_review_section(state, pressed, prov, key, ok) ==
  IF ~pressed
  THEN [section |-> "", review |-> None]
  ELSE IF review_allowed(state)
       THEN [section |-> "review",
             review |-> Some(get_ai_review(session_get(state, "parsed_results"),
                                           state.all_analysis[1],
                                           session_get(state, "patient_info"),
                                           prov, key, ok))]
       ELSE [section |-> "warning", review |-> None]

\* the api_key of the section: None for the local provider, else the text input
KeysOf(prov) == IF prov = LocalProvider THEN {None} ELSE ApiKeys \ {None}

InitSession ==
  /\ pc = "idle"
  /\ panel_type = "CBC"
  /\ patient_gender = "Male"
  /\ parameters = <<>>
  /\ param_name = <<>>
  /\ param_value = Null
  /\ ref_key = None
  /\ ref_info = None
  /\ analysis = None
  /\ analysis_results = <<>>
  /\ issues = <<>>
  /\ quality_notes = <<>>
  /\ fp_rounding = "exact"
  /\ exc = ""
  /\ alt = 0 /\ alp = 0 /\ liver_pattern = ""
  /\ provider = LocalProvider /\ api_key = None /\ remote_ok = TRUE
  /\ review = None
  /\ session_state = EmptySession
  /\ run_id = 0 /\ ai_section = ""
  /\ form_values = <<>>

\* a run of the script with "Upload Document" selected
UploadRun ==
  /\ run_id < MaxRuns
  /\ run_id' = run_id + 1
  /\ \E outcome \in UploadOutcomes, gender \in {"Male", "Female"},
        pressed \in BOOLEAN, prov \in AppProviders, ok \in BOOLEAN :
        \E key \in KeysOf(prov) :
           LET stored == upload_branch(session_state, outcome, run_id', gender)
               shown == ai_review_section(stored, pressed, prov, key, ok)
           IN  /\ session_state' = stored
               /\ patient_gender' = gender
               /\ provider' = prov /\ api_key' = key /\ remote_ok' = ok
               /\ ai_section' = shown.section
               /\ review' = shown.review
  /\ exc' = ""
  /\ UNCHANGED <<pc, panel_type, parameters, param_name, param_value, ref_key,
                 ref_info, analysis, analysis_results, issues, quality_notes,
                 fp_rounding, alt, alp, liver_pattern, form_values>>

\* a run of the script with "Manual Entry" selected; an exception of the
\* analysis is not caught and ends the run before the AI review section
ManualRun ==
  /\ run_id < MaxRuns
  /\ run_id' = run_id + 1
  /\ \E outcome \in ManualOutcomes, gender \in {"Male", "Female"},
        panel \in {"CBC", "LFT"},
        pressed \in BOOLEAN, prov \in AppProviders, ok \in BOOLEAN :
        \E key \in KeysOf(prov) :
           LET stored == manual_branch(session_state, outcome, run_id', panel, gender)
               shown == ai_review_section(stored,
                                          pressed /\ outcome = "not pressed",
                                          prov, key, ok)
           IN  /\ session_state' = stored
               /\ patient_gender' = gender
               /\ panel_type' = panel
               /\ provider' = prov /\ api_key' = key /\ remote_ok' = ok
               /\ IF outcome = "analysis error"
                  THEN exc' = "Exception" /\ ai_section' = "" /\ review' = None
                  ELSE /\ exc' = ""
                       /\ ai_section' = shown.section
                       /\ review' = shown.review
  /\ UNCHANGED <<pc, parameters, param_name, param_value, ref_key,
                 ref_info, analysis, analysis_results, issues, quality_notes,
                 fp_rounding, alt, alp, liver_pattern, form_values>>

NextSession == UploadRun \/ ManualRun

SpecSession == InitSession /\ [][NextSession]_vars

\* C28: a run shows a review only if an analysis is stored in the session,
\* present and not empty, and was stored in that run or an earlier one;
\* otherwise the run shows the warning and produces no review.
C28_ReviewNeedsAnalysis ==
  /\ ai_section = "review" =>
        /\ review # None
        /\ session_state.all_analysis # None
        /\ session_state.all_analysis[1].data # <<>>
        /\ session_state.all_analysis[1].run \in 1..run_id
        /\ review[1].summary # None =>
              review[1].summary[1].findings = session_state.all_analysis[1]
  /\ ai_section = "warning" =>
        /\ review = None
        /\ session_state.all_analysis = None
  /\ ai_section = "" => review = None
  /\ review # None => ai_section = "review"

\* a review generated in a later run than the analysis it is about
C28_Witness ==
  /\ ai_section = "review" /\ review # None
  /\ session_state.all_analysis # None
  /\ session_state.all_analysis[1].run < run_id

\* the runs that wrote the three stored values
Writers ==
  {session_state[k][1].run :
     k \in {k \in {"all_analysis", "parsed_results", "patient_info"} :
              session_state[k] # None}}

\* C29: the stored all_analysis, parsed_results and patient_info were all
\* written by the same run, and a review combines patient info and analysis
\* of one run only.
C29_SameRun ==
  /\ \/ session_state = EmptySession
     \/ /\ session_state.all_analysis # None
        /\ session_state.parsed_results # None
        /\ session_state.patient_info # None
        /\ Cardinality(Writers) = 1
  /\ (review # None /\ review[1].summary # None) =>
        review[1].summary[1].patient.run = review[1].summary[1].findings.run

-----------------------------------------------------------------------------
(* Manual entry: manual_entry_form and the "Analyze Results" button *)

\* variant of the filter: a value of 0 is kept
manual_entry_form_keeps_zero(values) ==
  SelectSeq(values, LAMBDA item : item.val.num >= 0)

\* manual_entry_form: the number inputs, without those that are not above 0
manual_entry_form(values) ==
  SelectSeq(values, LAMBDA item : item.val.num > 0)

\* number inputs of the CBC form; every input starts at 0.0 and cannot go below
FormValues ==
  {<<KV(Key_RBC, r), KV(Hemoglobin, h), KV(Key_Hematocrit, c), KV(Key_MCV, v),
     KV(Key_MCHC, m)>> :
     r \in {0, 300, 310}, h \in {0, 950, 1200}, c \in {0, 2850, 3600},
     v \in {0, 9500}, m \in {0, 2900}}

InitManual ==
  /\ pc = "form"
  /\ panel_type = "CBC"
  /\ patient_gender = "Male"
  /\ parameters = <<>>
  /\ param_name = <<>>
  /\ param_value = Null
  /\ ref_key = None
  /\ ref_info = None
  /\ analysis = None
  /\ analysis_results = <<>>
  /\ issues = <<>>
  /\ quality_notes = <<>>
  /\ fp_rounding \in FpRoundings
  /\ exc = ""
  /\ alt = 0 /\ alp = 0 /\ liver_pattern = ""
  /\ provider = LocalProvider /\ api_key = None /\ remote_ok = TRUE
  /\ review = None
  /\ session_state = EmptySession
  /\ run_id = 0 /\ ai_section = ""
  /\ form_values \in FormValues

\* the run in which "Analyze Results" is pressed: the form, the grid, the
\* quality assessment of a CBC and the values stored for the AI review
ManualAnalyze ==
  /\ pc = "form"
  /\ run_id' = run_id + 1
  /\ LET entered == manual_entry_form(form_values)
         grid == display_parameters_grid(entered, get_reference_for_panel(panel_type))
         quality == IF panel_type = "CBC" /\ grid.exc = ""
                    THEN get_sample_quality_assessment(entered)
                    ELSE [issues |-> <<>>, quality_notes |-> <<>>, exc |-> grid.exc]
     IN  /\ parameters' = entered
         /\ IF entered = <<>>
            THEN /\ pc' = "warned"
                 /\ UNCHANGED <<analysis_results, issues, quality_notes, exc,
                                session_state>>
            ELSE /\ pc' = "analysed"
                 /\ analysis_results' = grid.results
                 /\ issues' = quality.issues
                 /\ quality_notes' = quality.quality_notes
                 /\ exc' = quality.exc
                 /\ session_state' =
                      manual_branch(session_state,
                                    IF quality.exc = "" THEN "analysed"
                                    ELSE "analysis error",
                                    run_id', panel_type, patient_gender)
  /\ UNCHANGED <<panel_type, patient_gender, param_name, param_value, ref_key,
                 ref_info, analysis, fp_rounding, alt, alp, liver_pattern,
                 provider, api_key, remote_ok, review, ai_section, form_values>>

NextManual == ManualAnalyze

SpecManual == InitManual /\ [][NextManual]_vars

\* the number entered in the form under the key
Entered(key) == get(form_values, key)

\* C30: the form returns exactly the entries whose value is above 0; an entry
\* of 0 gets no analysis result, and the quality assessment reads it as
\* missing: with RBC 0 neither outcome of the first rule is recorded.
C30_ZeroRemoved ==
  pc \in {"analysed", "warned"} =>
     /\ \A i \in 1..Len(form_values) :
           (form_values[i].val.num > 0) <=> (form_values[i].key \in DictKeys(parameters))
     /\ \A i \in 1..Len(parameters) :
           parameters[i].val.num > 0 /\ parameters[i].val = Entered(parameters[i].key)
     /\ \A i \in 1..Len(analysis_results) :
           /\ analysis_results[i].val.value.num > 0
           /\ analysis_results[i].key \in DictKeys(parameters)
     /\ Entered(Key_RBC) = Num(0) =>
           /\ CountOf(issues, "Rule of Threes (RBC x 3 = Hb)") = 0
           /\ CountOf(quality_notes, "Rule of Threes (RBC x 3 = Hb): PASSES") = 0
     /\ (pc = "warned") <=> (\A i \in 1..Len(form_values) : form_values[i].val.num = 0)

\* RBC left at 0 with Hb 9.5 and HCT 28.5: two results, none for RBC
C30_Witness ==
  /\ pc = "analysed"
  /\ Entered(Key_RBC) = Num(0) /\ Entered(Hemoglobin) = Num(950)
  /\ Entered(Key_Hematocrit) = Num(2850) /\ Entered(Key_MCV) = Num(0)
  /\ Entered(Key_MCHC) = Num(0)
  /\ Len(analysis_results) = 2
  /\ Key_RBC \notin DictKeys(analysis_results)
  /\ CountOf(quality_notes, "Rule of Threes (Hb x 3 = HCT): PASSES") = 1

====
